---- MODULE Spec2Model ----
(***************************************************************************)
(* Model of evaluate_convex.py: main() drives the pipeline                 *)
(*   MDCParser.parse -> ConvexRulesExtractor.extract_rules ->              *)
(*   TypeScriptConfigEvaluator.evaluate -> ConvexRulesReporter.report      *)
(* over every TypeScript configuration file found in the project.          *)
(***************************************************************************)
EXTENDS Integers, Sequences, FiniteSets, TLC

(***************************************************************************)
(* Bounds of the model.                                                    *)
(***************************************************************************)
\* most fenced code blocks in a rules document
MaxBlocks == 2
\* most configuration files find_tsconfig_files returns
MaxFiles == 2

(***************************************************************************)
(* Python values.  A JSON document parsed by json.loads is a tagged value: *)
(* None (JSON null, and also "absent"), bool, number, str, list, dict.     *)
(***************************************************************************)
None == [t |-> "none"]
PyBool(b) == [t |-> "bool", v |-> b]
PyNum(n) == [t |-> "num", v |-> n]
PyStr(s) == [t |-> "str", v |-> s]
PyList(xs) == [t |-> "list", v |-> xs]
PyDict(f) == [t |-> "dict", v |-> f]

IsNone(x) == x.t = "none"
IsList(x) == x.t = "list"
IsDict(x) == x.t = "dict"
IsStr(x) == x.t = "str"
IsNumeric(x) == x.t \in {"bool", "num"}

\* bool is a subclass of int in Python: True is 1 and False is 0
NumVal(x) == IF x.t = "bool" THEN (IF x.v THEN 1 ELSE 0) ELSE x.v

\* Python's == on parsed JSON values (and so != as its negation)
RECURSIVE PyEq(_, _)
PyEq(a, b) ==
  IF IsNumeric(a) /\ IsNumeric(b) THEN NumVal(a) = NumVal(b)
  ELSE IF a.t # b.t THEN FALSE
  ELSE IF a.t = "none" THEN TRUE
  ELSE IF a.t = "str" THEN a.v = b.v
  ELSE IF a.t = "list" THEN
         /\ Len(a.v) = Len(b.v)
         /\ \A i \in 1..Len(a.v) : PyEq(a.v[i], b.v[i])
  ELSE /\ DOMAIN a.v = DOMAIN b.v
       /\ \A k \in DOMAIN a.v : PyEq(a.v[k], b.v[k])

\* Python truthiness of a value (used by `v or []`)
Truthy(x) ==
  CASE x.t = "none" -> FALSE
    [] x.t = "bool" -> x.v
    [] x.t = "num" -> x.v # 0
    [] x.t = "str" -> x.v # ""
    [] x.t = "list" -> Len(x.v) > 0
    [] OTHER -> DOMAIN x.v # {}

\* The substring test `needle in hay` on the strings of the model: a string
\* contains itself, the empty string, and the parts listed here.
ProperSubstrings ==
  { <<"DOM.Iterable", "DOM">>, <<"./_generated", "_generated">>,
    <<"convex/_generated", "_generated">>, <<"ESNext.Array", "ESNext">> }
StrContains(hay, needle) ==
  hay = needle \/ needle = "" \/ <<hay, needle>> \in ProperSubstrings

\* str(x) of a scalar value
StrOf(x) ==
  CASE x.t = "str" -> x.v
    [] x.t = "none" -> "None"
    [] x.t = "bool" -> (IF x.v THEN "True" ELSE "False")
    [] x.t = "num" -> (IF x.v = 0 THEN "0" ELSE IF x.v = 1 THEN "1" ELSE "<int>")
    [] OTHER -> "<repr>"

\* `x in xs` for a Python list xs
InList(x, xs) == \E i \in 1..Len(xs) : PyEq(xs[i], x)

(***************************************************************************)
(* Rule and Violation (dataclasses) and the enums they use.                *)
(***************************************************************************)
ERROR == "ERROR"
WARNING == "WARNING"
INFO == "INFO"
SUCCESS == "SUCCESS"
Severity == {ERROR, WARNING, INFO, SUCCESS}

REQUIRED == "required"
FORBIDDEN == "forbidden"
RECOMMENDED == "recommended"
RuleType == {REQUIRED, FORBIDDEN, RECOMMENDED}

\* a Rule field `validator` left at its default None
NoValidator == "None"
\* a fix_suggestion left at its default None
NoFix == "None"

\* Rule(...): expected_value, forbidden_value, validator and fix_suggestion
\* default to None; the description text is not modelled.
Rule(id, type, severity, path, expected_value, validator, fix_suggestion) ==
  [id |-> id, type |-> type, severity |-> severity, path |-> path,
   expected_value |-> expected_value, forbidden_value |-> None,
   validator |-> validator, fix_suggestion |-> fix_suggestion]

Violation(rule, config_file, actual_value, message, fix_suggestion) ==
  [rule |-> rule, config_file |-> config_file, actual_value |-> actual_value,
   message |-> message, fix_suggestion |-> fix_suggestion]

(***************************************************************************)
(* MDCDocument as the extractor reads it.  A section body and a code       *)
(* block's code are texts of which the extractor only asks whether they    *)
(* contain a trigger phrase: a text is the set of trigger phrases it       *)
(* contains.                                                               *)
(***************************************************************************)
TsSection == "Typescript guidelines"
OtherSection == "Function guidelines"
StrictPhrase == "Be strict with types"
NodeTypesPhrase == "@types/node"
SectionPhrases == {StrictPhrase, NodeTypesPhrase}

TsconfigPhrase == "tsconfig.json"
\* the literal  "skipLibCheck": true
SkipLibPhrase == "skipLibCheck: true"
\* the literal  "allowSyntheticDefaultImports": true
SyntheticPhrase == "allowSyntheticDefaultImports: true"
BlockPhrases == {TsconfigPhrase, SkipLibPhrase, SyntheticPhrase}

SectionMaps ==
  { [title \in titles |-> IF title = TsSection THEN body ELSE SectionPhrases] :
      titles \in SUBSET {TsSection, OtherSection}, body \in SUBSET SectionPhrases }

CodeBlocks == [language : {"json"}, code : SUBSET BlockPhrases]

RECURSIVE SeqsUpTo(_, _)
SeqsUpTo(S, n) ==
  IF n = 0 THEN {<<>>}
  ELSE LET shorter == SeqsUpTo(S, n - 1)
       IN shorter \cup {Append(s, x) : s \in {q \in shorter : Len(q) = n - 1}, x \in S}

\* the documents MDCParser.parse may return
Documents == [sections : SectionMaps, code_blocks : SeqsUpTo(CodeBlocks, MaxBlocks)]

NoDocument == [sections |-> [title \in {} |-> {}], code_blocks |-> <<>>]

(***************************************************************************)
(* ConvexRulesExtractor                                                    *)
(***************************************************************************)
_extract_typescript_rules(mdc_doc) ==
  IF TsSection \in DOMAIN mdc_doc.sections
  THEN LET content == mdc_doc.sections[TsSection]
       IN (IF StrictPhrase \in content
           THEN << Rule("ts-strict-types", REQUIRED, ERROR,
                        <<"compilerOptions", "strict">>, PyBool(TRUE), NoValidator,
                        "Set 'strict': true in compilerOptions") >>
           ELSE <<>>)
          \o
          (IF NodeTypesPhrase \in content
           THEN << Rule("ts-node-types", RECOMMENDED, INFO,
                        <<"compilerOptions", "types">>, None, "ts-node-types",
                        "Add '@types/node' to types array or install it") >>
           ELSE <<>>)
  ELSE <<>>

\* required_convex_opts, in the dict's insertion order
required_convex_opts ==
  << <<"target", PyStr("ESNext")>>,
     <<"module", PyStr("ESNext")>>,
     <<"forceConsistentCasingInFileNames", PyBool(TRUE)>>,
     <<"isolatedModules", PyBool(TRUE)>>,
     <<"noEmit", PyBool(TRUE)>> >>

\* RequiredOptRule with expected_value=value forgotten
RequiredOptRuleNoExpected(key, value) ==
  Rule("convex-required-" \o key, REQUIRED, ERROR, <<"compilerOptions", key>>,
       None, NoValidator, "Set '" \o key \o "' in compilerOptions")

RequiredOptRule(key, value) ==
  Rule("convex-required-" \o key, REQUIRED, ERROR, <<"compilerOptions", key>>,
       value, NoValidator, "Set '" \o key \o "' in compilerOptions")

_extract_convex_typescript_rules(mdc_doc) ==
  [i \in 1..Len(required_convex_opts) |->
     RequiredOptRule(required_convex_opts[i][1], required_convex_opts[i][2])]
  \o
  << Rule("convex-required-lib", REQUIRED, WARNING, <<"compilerOptions", "lib">>,
          None, "convex-required-lib", "Include 'ES2021' and 'DOM' in lib array"),
     Rule("convex-module-resolution", RECOMMENDED, WARNING,
          <<"compilerOptions", "moduleResolution">>,
          None, "convex-module-resolution",
          "Set 'moduleResolution': 'Bundler' for Convex compatibility"),
     Rule("convex-jsx", RECOMMENDED, INFO, <<"compilerOptions", "jsx">>,
          None, "convex-jsx", "Set 'jsx': 'react-jsx' for React 17+ support"),
     Rule("convex-exclude-generated", RECOMMENDED, INFO, <<"exclude">>,
          None, "convex-exclude-generated",
          "Add './_generated' or 'convex/_generated' to exclude array") >>

\* the rules one code block contributes
ExampleBlockRules(block) ==
  IF TsconfigPhrase \in block.code
  THEN (IF SkipLibPhrase \in block.code
        THEN << Rule("example-skip-lib-check", RECOMMENDED, INFO,
                     <<"compilerOptions", "skipLibCheck">>, PyBool(TRUE), NoValidator,
                     "Set 'skipLibCheck': true for faster builds") >>
        ELSE <<>>)
       \o
       (IF SyntheticPhrase \in block.code
        THEN << Rule("example-synthetic-imports", RECOMMENDED, INFO,
                     <<"compilerOptions", "allowSyntheticDefaultImports">>,
                     PyBool(TRUE), NoValidator,
                     "Set 'allowSyntheticDefaultImports': true") >>
        ELSE <<>>)
  ELSE <<>>

RECURSIVE ExampleRulesFrom(_, _)
ExampleRulesFrom(blocks, i) ==
  IF i > Len(blocks) THEN <<>>
  ELSE ExampleBlockRules(blocks[i]) \o ExampleRulesFrom(blocks, i + 1)

_extract_example_config_rules(mdc_doc) == ExampleRulesFrom(mdc_doc.code_blocks, 1)

extract_rules(mdc_doc) ==
  _extract_typescript_rules(mdc_doc)
    \o _extract_convex_typescript_rules(mdc_doc)
    \o _extract_example_config_rules(mdc_doc)

(***************************************************************************)
(* The validator lambdas attached to rules, named by their rule.           *)
(***************************************************************************)
AnyItemContains(xs, needles) ==
  \E i \in 1..Len(xs) : \E needle \in needles : StrContains(StrOf(xs[i]), needle)

ApplyValidator(validator, v) ==
  CASE validator = "ts-node-types" ->
         IF IsList(v)
         THEN InList(PyStr("@types/node"), (IF Truthy(v) THEN v.v ELSE <<>>))
         ELSE TRUE
    [] validator = "convex-required-lib" ->
         /\ IsList(v)
         /\ \/ AnyItemContains(v.v, {"ES2021", "ES2020", "ESNext"})
            \/ AnyItemContains(v.v, {"DOM"})
    [] validator = "convex-module-resolution" ->
         InList(v, <<PyStr("Bundler"), PyStr("bundler"), PyStr("Node"), PyStr("node")>>)
    [] validator = "convex-jsx" ->
         InList(v, <<PyStr("react-jsx"), PyStr("react"), PyStr("preserve")>>)
    [] validator = "convex-exclude-generated" ->
         IsList(v) /\ AnyItemContains(v.v, {"_generated"})

(***************************************************************************)
(* TypeScriptConfigEvaluator                                               *)
(***************************************************************************)
\* the navigation loop of _evaluate_rule: the value the path leads to
RECURSIVE ResolveFrom(_, _, _)
ResolveFrom(value, path, i) ==
  IF i > Len(path) THEN value
  ELSE IF IsDict(value) /\ path[i] \in DOMAIN value.v
       THEN ResolveFrom(value.v[path[i]], path, i + 1)
       ELSE None

\* the navigation loop with `break` but without `value = None`
RECURSIVE ResolveFromKeepsValue(_, _, _)
ResolveFromKeepsValue(value, path, i) ==
  IF i > Len(path) THEN value
  ELSE IF IsDict(value) /\ path[i] \in DOMAIN value.v
       THEN ResolveFromKeepsValue(value.v[path[i]], path, i + 1)
       ELSE value

ResolvePathKeepsValue(path, config) == ResolveFromKeepsValue(config, path, 1)

ResolvePath(path, config) == ResolveFrom(config, path, 1)

\* the outcome of _evaluate_rule: a Violation, or None
NoViolation == None

\* ExpectedMismatch that reports a missing value only
ExpectedMissingOnly(value, expected_value) == IsNone(value)

ExpectedMismatch(value, expected_value) == ~PyEq(value, expected_value)

ForbiddenMatch(value, forbidden_value) == PyEq(value, forbidden_value)

_evaluate_rule(rule, config, config_file) ==
  LET value == ResolvePath(rule.path, config)
  IN CASE rule.type = REQUIRED ->
            IF ~IsNone(rule.expected_value)
            THEN IF ExpectedMismatch(value, rule.expected_value)
                 THEN Violation(rule, config_file, value,
                                <<"Expected", rule.expected_value, "Got", value>>,
                                rule.fix_suggestion)
                 ELSE NoViolation
            ELSE IF rule.validator # NoValidator
                 THEN IF ~ApplyValidator(rule.validator, value)
                      THEN Violation(rule, config_file, value,
                                     <<"Validation failed for value", value>>,
                                     rule.fix_suggestion)
                      ELSE NoViolation
                 ELSE NoViolation
       [] rule.type = FORBIDDEN ->
            IF ForbiddenMatch(value, rule.forbidden_value)
            THEN Violation(rule, config_file, value,
                           <<"Forbidden value found", value>>, rule.fix_suggestion)
            ELSE NoViolation
       [] rule.type = RECOMMENDED ->
            IF ~IsNone(rule.expected_value)
            THEN IF ExpectedMismatch(value, rule.expected_value)
                 THEN Violation(rule, config_file, value,
                                <<"Recommended", rule.expected_value, "Got", value>>,
                                rule.fix_suggestion)
                 ELSE NoViolation
            ELSE IF rule.validator # NoValidator
                 THEN IF ~ApplyValidator(rule.validator, value)
                      THEN Violation(rule, config_file, value,
                                     <<"Recommendation not followed for value", value>>,
                                     rule.fix_suggestion)
                      ELSE NoViolation
                 ELSE NoViolation

(***************************************************************************)
(* What open()/read()/cleaning/json.loads make of a configuration file:    *)
(*   missing      open raises FileNotFoundError                            *)
(*   unreadable   open raises another OSError (PermissionError is taken;   *)
(*                IsADirectoryError behaves alike)                         *)
(*   undecodable  read raises UnicodeDecodeError                           *)
(*   invalid      json.loads raises JSONDecodeError on the cleaned text    *)
(*   json         json.loads returns the value `config`                    *)
(***************************************************************************)
FileMissing == [kind |-> "missing"]
FileUnreadable == [kind |-> "unreadable"]
FileUndecodable == [kind |-> "undecodable"]
FileInvalid == [kind |-> "invalid"]
FileJson(config) == [kind |-> "json", config |-> config]
\* JSON with comments or trailing commas: json.load raises JSONDecodeError,
\* the cleaning of evaluate makes `config` of it
FileJsonc(config) == [kind |-> "jsonc", config |-> config]

\* the rule of the synthetic violation
ParseErrorRule ==
  [id |-> "config-parse-error", type |-> REQUIRED, severity |-> ERROR, path |-> <<>>,
   expected_value |-> None, forbidden_value |-> None, validator |-> NoValidator,
   fix_suggestion |-> NoFix]

\* the exception the try block of evaluate raises on the file, "" for none
TryBlockRaises(content) ==
  CASE content.kind = "missing" -> "FileNotFoundError"
    [] content.kind = "unreadable" -> "PermissionError"
    [] content.kind = "undecodable" -> "UnicodeDecodeError"
    [] content.kind = "invalid" -> "JSONDecodeError"
    [] OTHER -> ""

\* Caught with FileNotFoundError left out of the except clause
CaughtJsonErrorOnly(exception) == exception = "JSONDecodeError"

\* the except clause: the exceptions of the try block evaluate catches
Caught(exception) == exception \in {"JSONDecodeError", "FileNotFoundError"}

\* Python's `key in container`; TypeError on a value that is no container
InRaises(container) == container.t \in {"none", "bool", "num"}
PyIn(key, container) ==
  CASE container.t = "dict" -> key \in DOMAIN container.v
    [] container.t = "list" -> InList(PyStr(key), container.v)
    [] container.t = "str" -> StrContains(container.v, key)

is_references_config(config) ==
  PyIn("references", config) /\ ~PyIn("compilerOptions", config)

\* Skipped with the skip limited to Required rules
SkippedRequiredOnly(rule, config) ==
  /\ is_references_config(config)
  /\ Len(rule.path) > 0
  /\ rule.path[1] = "compilerOptions"
  /\ rule.type = REQUIRED

\* a rule the loop of evaluate skips
Skipped(rule, config) ==
  /\ is_references_config(config)
  /\ Len(rule.path) > 0
  /\ rule.path[1] = "compilerOptions"

\* the body of the loop after _evaluate_rule: append to one of the two lists
Record(acc, rule, violation) ==
  IF violation # NoViolation
  THEN [acc EXCEPT !.violations = Append(@, violation)]
  ELSE [acc EXCEPT !.passed_rules = Append(@, rule)]

\* the loop of evaluate over rules[i..], appending to violations / passed_rules
RECURSIVE EvaluateLoop(_, _, _, _, _)
EvaluateLoop(rules, i, config, config_file, acc) ==
  IF i > Len(rules) THEN acc
  ELSE IF Skipped(rules[i], config)
       THEN EvaluateLoop(rules, i + 1, config, config_file, acc)
       ELSE EvaluateLoop(rules, i + 1, config, config_file,
              Record(acc, rules[i], _evaluate_rule(rules[i], config, config_file)))

\* evaluate(config_path) with the file holding `content`:
\* raised names the exception that leaves evaluate, "" when it returns
evaluate(rules, config_path, content) ==
  IF TryBlockRaises(content) # ""
  THEN IF Caught(TryBlockRaises(content))
       THEN [raised |-> "",
             violations |-> << Violation(ParseErrorRule, config_path, None,
                                         <<"Failed to parse", config_path>>, NoFix) >>,
             passed_rules |-> <<>>]
       ELSE [raised |-> TryBlockRaises(content),
             violations |-> <<>>, passed_rules |-> <<>>]
  ELSE IF InRaises(content.config)
       THEN [raised |-> "TypeError", violations |-> <<>>, passed_rules |-> <<>>]
       ELSE EvaluateLoop(rules, 1, content.config, config_path,
                         [raised |-> "", violations |-> <<>>, passed_rules |-> <<>>])

(***************************************************************************)
(* ConvexRulesReporter.report: the counts, the verdict line and the        *)
(* returned flag.                                                          *)
(***************************************************************************)
CountSeverity(violations, severity) ==
  Cardinality({i \in 1..Len(violations) : violations[i].rule.severity = severity})

FAILED == "FAILED"
PASSED_WITH_WARNINGS == "PASSED WITH WARNINGS"
PASSED == "PASSED: All rules satisfied"

Verdict(error_count, warning_count, info_count) ==
  IF error_count > 0 THEN FAILED
  ELSE IF warning_count > 0 THEN PASSED_WITH_WARNINGS
  ELSE PASSED

report(config_file, violations, passed_rules) ==
  LET error_count == CountSeverity(violations, ERROR)
      warning_count == CountSeverity(violations, WARNING)
      info_count == CountSeverity(violations, INFO)
      verdict == Verdict(error_count, warning_count, info_count)
  IN [total_rules |-> Len(violations) + Len(passed_rules),
      error_count |-> error_count,
      warning_count |-> warning_count,
      info_count |-> info_count,
      verdict |-> verdict,
      result |-> (verdict # FAILED)]

(***************************************************************************)
(* The configuration files of the model.                                   *)
(***************************************************************************)
GoodOptions ==
  [strict |-> PyBool(TRUE),
   types |-> PyList(<<PyStr("@types/node")>>),
   target |-> PyStr("ESNext"),
   module |-> PyStr("ESNext"),
   forceConsistentCasingInFileNames |-> PyBool(TRUE),
   isolatedModules |-> PyBool(TRUE),
   noEmit |-> PyBool(TRUE),
   lib |-> PyList(<<PyStr("ES2021"), PyStr("DOM")>>),
   moduleResolution |-> PyStr("Bundler"),
   jsx |-> PyStr("react-jsx"),
   skipLibCheck |-> PyBool(TRUE),
   allowSyntheticDefaultImports |-> PyBool(TRUE)]

VariedKeys == {"strict", "lib", "skipLibCheck"}
OptionValues ==
  {PyBool(TRUE), PyBool(FALSE), PyNum(1), None, PyList(<<PyStr("DOM.Iterable")>>)}

\* GoodOptions with one key set to another value, or removed
OptionMaps ==
  { [k \in DOMAIN GoodOptions |-> IF k = key THEN value ELSE GoodOptions[k]] :
      key \in VariedKeys, value \in OptionValues }
  \cup { [k \in DOMAIN GoodOptions \ {key} |-> GoodOptions[k]] : key \in VariedKeys }

ReferencesValue == PyList(<<PyDict([path |-> PyStr("./x")])>>)
GoodExclude == PyList(<<PyStr("./_generated")>>)

\* a top-level object from optional entries; Absent leaves the key out
Absent == [t |-> "absent"]
TopLevel(references, compilerOptions, exclude) ==
  LET entries == [references |-> references, compilerOptions |-> compilerOptions,
                  exclude |-> exclude]
  IN PyDict([k \in {key \in DOMAIN entries : entries[key] # Absent} |-> entries[k]])

ShapeConfigs ==
  { TopLevel(references, compilerOptions, exclude) :
      references \in {Absent, ReferencesValue},
      compilerOptions \in {Absent, PyDict(GoodOptions)},
      exclude \in {Absent, GoodExclude} }

\* compilerOptions varied: an object, an empty object, or no object at all
OptionConfigs ==
  { TopLevel(Absent, compilerOptions, GoodExclude) :
      compilerOptions \in {PyDict(options) : options \in OptionMaps}
                           \cup {PyDict([k \in {} |-> None]), PyStr("x")} }

\* top-level JSON values that are no object
NonObjectConfigs ==
  {None, PyBool(TRUE), PyNum(1), PyStr("references"), PyList(<<PyStr("references")>>)}

Configs == ShapeConfigs \cup OptionConfigs \cup NonObjectConfigs

FileContents ==
  {FileMissing, FileUnreadable, FileUndecodable, FileInvalid}
    \cup {FileJson(config) : config \in Configs}

NoContent == [kind |-> "none"]

\* standard_configs of find_tsconfig_files, in its order
standard_configs ==
  <<"tsconfig.json", "tsconfig.app.json", "convex/tsconfig.json",
    "tsconfig.node.json", "tsconfig.build.json">>

\* the lists find_tsconfig_files may return: the first n standard files exist
FoundConfigLists == { SubSeq(standard_configs, 1, n) : n \in 0..MaxFiles }

(***************************************************************************)
(* main()                                                                  *)
(***************************************************************************)
VARIABLES
  seen,          \* what main() has found of its arguments and files, in order
  pc,            \* position of main()
  exit_code,     \* process exit status, -1 while running
  exit_at,       \* the place of main() the process ended at
  mdc_doc,       \* parser.parse(rules_file), until the rules are extracted
  rules,         \* extractor.extract_rules(mdc_doc)
  config_files,  \* find_tsconfig_files(project_dir)
  evaluated,     \* number of config files the loop has taken
  content,       \* what the last evaluate() found in its file
  violations,    \* last result of evaluate()
  passed_rules,  \* last result of evaluate()
  last_report,   \* what the last report() printed and returned
  all_passed,
  reports,       \* per reported file: its path, whether it had an Error, report's flag
  arg,           \* the argument of a function called on its own, NoCall in main()
  ret,           \* what that call returned or raised, NoCall before it
  step,          \* position of run_all_validations / run_all_fixes
  project,       \* the files of the project directory the scripts run in
  errors,        \* TSGOValidator.errors
  warnings,      \* TSGOValidator.warnings
  successes,     \* TSGOValidator.successes
  fixes_applied, \* TSGOAutoFixer.fixes_applied
  fixes_failed   \* TSGOAutoFixer.fixes_failed

vars == <<seen, pc, exit_code, exit_at, mdc_doc, rules, config_files, evaluated,
          content, violations, passed_rules, last_report, all_passed, reports,
          arg, ret, step, project, errors, warnings, successes,
          fixes_applied, fixes_failed>>

call_vars == <<arg, ret>>
\* the variables of the two set-up scripts
script_vars == <<step, project, errors, warnings, successes, fixes_applied, fixes_failed>>
\* the variables main() does not touch
other_vars == <<call_vars, script_vars>>

NoCall == [t |-> "nocall"]

\* neither set-up script is running
NoScript ==
  /\ step = "none"
  /\ project = NoCall
  /\ errors = <<>>
  /\ warnings = <<>>
  /\ successes = <<>>
  /\ fixes_applied = <<>>
  /\ fixes_failed = <<>>

NoReport == [total_rules |-> 0, error_count |-> 0, warning_count |-> 0,
             info_count |-> 0, verdict |-> "", result |-> TRUE]

Init ==
  /\ seen = <<>>
  /\ pc = "project_dir"
  /\ exit_code = -1
  /\ exit_at = ""
  /\ mdc_doc = NoDocument
  /\ rules = <<>>
  /\ config_files = <<>>
  /\ evaluated = 0
  /\ content = NoContent
  /\ violations = <<>>
  /\ passed_rules = <<>>
  /\ last_report = NoReport
  /\ all_passed = TRUE
  /\ reports = <<>>
  /\ arg = NoCall
  /\ ret = NoCall
  /\ NoScript

\* sys.exit(code) at place `at`
Exit(code, at) == pc' = "exit" /\ exit_code' = code /\ exit_at' = at

CheckProjectDir ==
  /\ pc = "project_dir"
  /\ \E exists \in BOOLEAN :
       IF ~exists
       THEN Exit(1, "project_dir") /\ seen' = Append(seen, "no project_dir")
       ELSE /\ pc' = "rules_file"
            /\ seen' = Append(seen, "project_dir")
            /\ UNCHANGED <<exit_code, exit_at>>
  /\ UNCHANGED <<mdc_doc, rules, config_files, evaluated, content, violations,
                 passed_rules, last_report, all_passed, reports>>
  /\ UNCHANGED other_vars

\* rules_file_arg: --rules-file is given; found: find_rules_file finds a candidate
LocateRulesFile ==
  /\ pc = "rules_file"
  /\ \E rules_file_arg \in BOOLEAN, found \in BOOLEAN :
       IF ~rules_file_arg /\ ~found
       THEN Exit(1, "rules_not_found") /\ seen' = Append(seen, "no rules_file")
       ELSE /\ pc' = "rules_exists"
            /\ seen' = Append(seen, "rules_file")
            /\ UNCHANGED <<exit_code, exit_at>>
  /\ UNCHANGED <<mdc_doc, rules, config_files, evaluated, content, violations,
                 passed_rules, last_report, all_passed, reports>>
  /\ UNCHANGED other_vars

\* CheckRulesFile with the sys.exit(1) of the missing-file branch left out
CheckRulesFileFallsThrough ==
  /\ pc = "rules_exists"
  /\ \E exists \in BOOLEAN :
       /\ pc' = "parse"
       /\ seen' = Append(seen, IF exists THEN "rules_file exists" ELSE "rules_file missing")
       /\ UNCHANGED <<exit_code, exit_at>>
  /\ UNCHANGED <<mdc_doc, rules, config_files, evaluated, content, violations,
                 passed_rules, last_report, all_passed, reports>>
  /\ UNCHANGED other_vars

CheckRulesFile ==
  /\ pc = "rules_exists"
  /\ \E exists \in BOOLEAN :
       IF ~exists
       THEN Exit(1, "rules_missing") /\ seen' = Append(seen, "rules_file missing")
       ELSE /\ pc' = "parse"
            /\ seen' = Append(seen, "rules_file exists")
            /\ UNCHANGED <<exit_code, exit_at>>
  /\ UNCHANGED <<mdc_doc, rules, config_files, evaluated, content, violations,
                 passed_rules, last_report, all_passed, reports>>
  /\ UNCHANGED other_vars

ParseRules ==
  /\ pc = "parse"
  /\ \E raises \in BOOLEAN :
       IF raises
       THEN /\ Exit(1, "parse_failed")
            /\ seen' = Append(seen, "parse raised")
            /\ UNCHANGED mdc_doc
       ELSE /\ \E doc \in Documents : mdc_doc' = doc
            /\ pc' = "extract"
            /\ seen' = Append(seen, "parsed")
            /\ UNCHANGED <<exit_code, exit_at>>
  /\ UNCHANGED <<rules, config_files, evaluated, content, violations,
                 passed_rules, last_report, all_passed, reports>>
  /\ UNCHANGED other_vars

\* mdc_doc is not read again once the rules are extracted
ExtractRules ==
  /\ pc = "extract"
  /\ rules' = extract_rules(mdc_doc)
  /\ mdc_doc' = NoDocument
  /\ pc' = "find_configs"
  /\ UNCHANGED <<seen, exit_code, exit_at, config_files, evaluated, content, violations,
                 passed_rules, last_report, all_passed, reports>>
  /\ UNCHANGED other_vars

FindConfigs ==
  /\ pc = "find_configs"
  /\ \E found \in FoundConfigLists :
       /\ config_files' = found
       /\ IF found = <<>>
          THEN Exit(1, "no_configs") /\ seen' = Append(seen, "no config_files")
          ELSE /\ pc' = "evaluate"
               /\ seen' = Append(seen, "config_files")
               /\ UNCHANGED <<exit_code, exit_at>>
  /\ UNCHANGED <<mdc_doc, rules, evaluated, content, violations,
                 passed_rules, last_report, all_passed, reports>>
  /\ UNCHANGED other_vars

HasError(vs) == \E i \in 1..Len(vs) : vs[i].rule.severity = ERROR

\* one iteration of the loop over config_files: evaluate, then report
EvaluateConfig ==
  /\ pc = "evaluate"
  /\ evaluated < Len(config_files)
  /\ \E c \in FileContents :
     \E result \in {evaluate(rules, config_files[evaluated + 1], c)} :
       /\ content' = c
       /\ evaluated' = evaluated + 1
       /\ IF result.raised # ""
          THEN \* the exception leaves main(): traceback, exit status 1
               /\ Exit(1, "traceback")
               /\ UNCHANGED <<violations, passed_rules, last_report, all_passed, reports>>
          ELSE \E passed \in {report(config_files[evaluated + 1],
                                     result.violations, result.passed_rules)} :
               /\ violations' = result.violations
               /\ passed_rules' = result.passed_rules
               /\ last_report' = passed
               /\ all_passed' = (IF ~passed.result THEN FALSE ELSE all_passed)
               /\ reports' = Append(reports,
                    [config_file |-> config_files[evaluated + 1],
                     has_error |-> HasError(result.violations),
                     passed |-> passed.result])
               /\ pc' = (IF evaluated + 1 = Len(config_files) THEN "summary"
                         ELSE "evaluate")
               /\ UNCHANGED <<exit_code, exit_at>>
  /\ UNCHANGED <<seen, mdc_doc, rules, config_files>>
  /\ UNCHANGED other_vars

FinalSummary ==
  /\ pc = "summary"
  /\ IF all_passed THEN Exit(0, "summary") ELSE Exit(1, "summary")
  /\ UNCHANGED <<seen, mdc_doc, rules, config_files, evaluated, content, violations,
                 passed_rules, last_report, all_passed, reports>>
  /\ UNCHANGED other_vars

Next ==
  \/ CheckProjectDir
  \/ LocateRulesFile
  \/ CheckRulesFile
  \/ ParseRules
  \/ ExtractRules
  \/ FindConfigs
  \/ EvaluateConfig
  \/ FinalSummary

Spec == Init /\ [][Next]_vars
(***************************************************************************)
(* Properties                                                              *)
(***************************************************************************)
\* evaluate has returned for the file `content` was read from, so that
\* violations and passed_rules are its result
Returned == content # NoContent /\ exit_at # "traceback"

\* the path evaluate was last called with
ConfigPath == config_files[evaluated]

ViolationRules == {violations[i].rule : i \in 1..Len(violations)}
PassedRules == {passed_rules[i] : i \in 1..Len(passed_rules)}

\* C1: when the config file is missing or its cleaned text is not valid JSON,
\* evaluate returns (it does not raise) exactly one violation, with rule id
\* config-parse-error, severity Error, actual_value None and a message naming
\* the file, together with an empty passed_rules list.
C1_ParseFailureIsOneViolation ==
  content.kind \in {"missing", "invalid"} =>
    /\ exit_at # "traceback"
    /\ Len(violations) = 1
    /\ violations[1].rule.id = "config-parse-error"
    /\ violations[1].rule.severity = ERROR
    /\ violations[1].actual_value = None
    /\ violations[1].config_file = ConfigPath
    /\ violations[1].message = <<"Failed to parse", ConfigPath>>
    /\ passed_rules = <<>>

C1_Witness ==
  /\ content.kind = "missing"
  /\ evaluated = 2
  /\ Len(violations) = 1
  /\ violations[1].rule.id = "config-parse-error"
  /\ violations[1].config_file = "tsconfig.app.json"

\* Where a path of at most two keys leads in a parsed config, stated key by key.
PathReaches(path, config) ==
  CASE Len(path) = 0 -> TRUE
    [] Len(path) = 1 -> IsDict(config) /\ path[1] \in DOMAIN config.v
    [] Len(path) = 2 -> /\ IsDict(config)
                        /\ path[1] \in DOMAIN config.v
                        /\ IsDict(config.v[path[1]])
                        /\ path[2] \in DOMAIN config.v[path[1]].v
ValueStored(path, config) ==
  CASE Len(path) = 0 -> config
    [] Len(path) = 1 -> config.v[path[1]]
    [] Len(path) = 2 -> config.v[path[1]].v[path[2]]
Expected(path, config) ==
  IF PathReaches(path, config) THEN ValueStored(path, config) ELSE None

\* C2: path resolution is total: for every rule path and every parsed config,
\* the resolved value is None when a path segment is missing or the value
\* reached there is no mapping, and the value stored at the full path
\* otherwise; a violation's actual_value is that resolved value.
C2_PathResolutionTotal ==
  content.kind = "json" =>
    /\ \A i \in 1..Len(rules) :
         /\ Len(rules[i].path) <= 2
         /\ ResolvePath(rules[i].path, content.config)
              = Expected(rules[i].path, content.config)
    /\ ResolvePath(ParseErrorRule.path, content.config) = content.config
    /\ Returned =>
         \A i \in 1..Len(violations) :
           violations[i].actual_value
             = Expected(violations[i].rule.path, content.config)

\* a violation reports None for an option missing from an existing
\* compilerOptions object, while another rule resolves to the stored value
C2_Witness ==
  /\ Returned
  /\ content.kind = "json"
  /\ IsDict(content.config)
  /\ "compilerOptions" \in DOMAIN content.config.v
  /\ IsDict(content.config.v["compilerOptions"])
  /\ \E i \in 1..Len(violations) :
       /\ violations[i].rule.path = <<"compilerOptions", "strict">>
       /\ "strict" \notin DOMAIN content.config.v["compilerOptions"].v
       /\ violations[i].actual_value = None
  /\ \E i \in 1..Len(passed_rules) :
       /\ passed_rules[i].path = <<"compilerOptions", "target">>
       /\ ResolvePath(passed_rules[i].path, content.config) = PyStr("ESNext")

\* equality of type and value
StrictEq(a, b) == a.t = b.t /\ a = b

\* the rules the loop evaluated for the last config
EvaluatedRules == {rules[i] : i \in {j \in 1..Len(rules) : ~Skipped(rules[j], content.config)}}

\* C3: a Required or Recommended rule carrying an expected value yields a
\* Violation exactly when the resolved value is not strictly equal to the
\* expected value (the number 1 against expected true is a violation); a
\* Forbidden rule yields a Violation exactly when the resolved value equals
\* its forbidden value.
C3_StrictEqualityDecides ==
  (Returned /\ content.kind = "json") =>
    \A r \in EvaluatedRules :
      LET value == Expected(r.path, content.config)
      IN /\ (r.type \in {REQUIRED, RECOMMENDED} /\ r.expected_value # None) =>
              (r \in ViolationRules <=> ~StrictEq(value, r.expected_value))
         /\ r.type = FORBIDDEN =>
              (r \in ViolationRules <=> StrictEq(value, r.forbidden_value))

\* a config object with a references entry and no compilerOptions entry
ReferencesOnly(config) ==
  /\ IsDict(config)
  /\ "references" \in DOMAIN config.v
  /\ "compilerOptions" \notin DOMAIN config.v

\* C4: on a references-only config no rule whose path starts with
\* compilerOptions is in violations or in passed_rules, whatever its kind,
\* and every rule whose path starts elsewhere is in one of the two.
C4_ReferencesOnlySkipsOptions ==
  (Returned /\ content.kind = "json" /\ ReferencesOnly(content.config)) =>
    /\ \A r \in ViolationRules \cup PassedRules : r.path[1] # "compilerOptions"
    /\ \A i \in 1..Len(rules) :
         rules[i].path[1] # "compilerOptions" =>
           rules[i] \in ViolationRules \cup PassedRules

\* Required and Recommended compilerOptions rules are skipped, and the exclude
\* rule is reported as a violation
C4_Witness ==
  /\ Returned
  /\ content.kind = "json"
  /\ ReferencesOnly(content.config)
  /\ \E i \in 1..Len(rules) : rules[i].id = "ts-strict-types"
  /\ \E i \in 1..Len(rules) : rules[i].id = "example-skip-lib-check"
  /\ Len(violations) = 1
  /\ violations[1].rule.id = "convex-exclude-generated"
  /\ passed_rules = <<>>

\* C5: once the rules and at least one config file are found, the process
\* exits with 0 if and only if no evaluated config file has an Error
\* violation and with 1 otherwise, and every found config file is evaluated
\* and reported before the exit code is decided.
C5_ExitCodeAfterAllFiles ==
  (pc = "exit" /\ config_files # <<>>) =>
    /\ Len(reports) = Len(config_files)
    /\ \A i \in 1..Len(reports) : reports[i].config_file = config_files[i]
    /\ exit_code \in {0, 1}
    /\ (exit_code = 0) <=> (\A i \in 1..Len(reports) : ~reports[i].has_error)

\* C6: report returns False only if an Error violation exists, gives the
\* pass-with-warnings verdict whenever violations exist and all are Warning
\* or Info (Info-only included), and the plain pass only with no violations.
C6_ReportVerdict ==
  last_report # NoReport =>
    /\ ~last_report.result => HasError(violations)
    /\ (violations # <<>> /\ ~HasError(violations)) =>
         (last_report.result /\ last_report.verdict = PASSED_WITH_WARNINGS)
    /\ last_report.verdict = PASSED => violations = <<>>

\* C7: evaluate never raises: for a missing, unreadable or undecodable file,
\* invalid JSON, or valid JSON of any top-level type it returns a
\* (violations, passed_rules) pair.
C7_EvaluateNeverRaises ==
  content # NoContent => exit_at # "traceback"

\* the checks of main() before the loop, in order: what each finds when it
\* passes, what it finds when it fails, and where main() then exits
ChecksPassed ==
  <<"project_dir", "rules_file", "rules_file exists", "parsed", "config_files">>
ChecksFailed ==
  <<"no project_dir", "no rules_file", "rules_file missing", "parse raised",
    "no config_files">>
EarlyExits ==
  <<"project_dir", "rules_not_found", "rules_missing", "parse_failed", "no_configs">>

\* C8: main terminates early with exit code 1, before any config file is
\* evaluated, when the project directory does not exist, no rules file is
\* given or found, the rules file does not exist, parsing it raises, or no
\* config file is found; the checks are made in this order.
C8_EarlyExits ==
  /\ Len(seen) <= Len(ChecksPassed)
  /\ \A k \in 1..Len(seen) :
       /\ seen[k] \in {ChecksPassed[k], ChecksFailed[k]}
       /\ seen[k] = ChecksFailed[k] =>
            /\ Len(seen) = k
            /\ pc = "exit"
            /\ exit_code = 1
            /\ exit_at = EarlyExits[k]
            /\ evaluated = 0
            /\ content = NoContent
            /\ reports = <<>>

C8_Witness ==
  /\ seen = <<"project_dir", "rules_file", "rules_file missing">>
  /\ pc = "exit"
  /\ exit_code = 1
  /\ exit_at = "rules_missing"

\* C9: the list returned by extract_rules contains no two rules with the
\* same id.
C9_RuleIdsUnique ==
  \A i, j \in 1..Len(rules) : i # j => rules[i].id # rules[j].id

\* how many of expected_value, forbidden_value and validator a rule has set
SetCount(rule) ==
  (IF rule.expected_value # None THEN 1 ELSE 0)
    + (IF rule.forbidden_value # None THEN 1 ELSE 0)
    + (IF rule.validator # NoValidator THEN 1 ELSE 0)

\* C10 as stated: every Rule the program constructs, the rules of
\* extract_rules and the synthetic config-parse-error rule of evaluate, has
\* exactly one of expected_value, forbidden_value or validator set.
C10_EveryRuleHasOneCheck ==
  /\ \A i \in 1..Len(rules) : SetCount(rules[i]) = 1
  /\ \A i \in 1..Len(violations) : SetCount(violations[i].rule) = 1

\* C10 amended: every rule returned by extract_rules has exactly one of
\* expected_value, forbidden_value or validator set; the synthetic
\* config-parse-error rule built by evaluate has none of them set.
C10_ExtractedRulesHaveOneCheck ==
  /\ \A i \in 1..Len(rules) : SetCount(rules[i]) = 1
  /\ \A i \in 1..Len(violations) :
       SetCount(violations[i].rule)
         = (IF violations[i].rule.id = "config-parse-error" THEN 0 ELSE 1)

C10_Witness ==
  /\ Returned
  /\ \E i \in 1..Len(rules) : rules[i].validator # NoValidator
  /\ \E i \in 1..Len(rules) : rules[i].expected_value # None
  /\ \E i \in 1..Len(violations) : violations[i].rule.id = "config-parse-error"

(***************************************************************************)
(* MDCParser.parse on the text of a rules file.  A text is a sequence of   *)
(* elements: "\n", " ", "#", ":", the double quote, a run of three         *)
(* backticks, a run of three dashes, and runs of other characters that     *)
(* hold none of these.                                                     *)
(***************************************************************************)
MaxLines == 3

NL == "\n"
\* the double-quote character
QUOTE == "dq"
\* a run of three backticks
FENCE == "'''"
DASHES == "---"
Space == {" ", NL}
\* the elements \w does not match
NonWord == {" ", NL, "#", ":", QUOTE, FENCE, DASHES, "+", "-", "*.ts", "2024-02-30"}

Max(S) == CHOOSE x \in S : \A y \in S : y <= x
Min(S) == CHOOSE x \in S : \A y \in S : x <= y

\* the position after the longest run from i of elements in S / not in S
RunEnd(text, i, S) ==
  Min({j \in i..(Len(text) + 1) : j = Len(text) + 1 \/ text[j] \notin S})
RunEndNot(text, i, S) ==
  Min({j \in i..(Len(text) + 1) : j = Len(text) + 1 \/ text[j] \in S})

\* str.strip(): the text without the leading and trailing elements of S
Strip(text, S) ==
  LET kept == {i \in 1..Len(text) : text[i] \notin S}
  IN IF kept = {} THEN <<>> ELSE SubSeq(text, Min(kept), Max(kept))

\* str.split('\n')
RECURSIVE SplitLines(_)
SplitLines(text) ==
  LET e == RunEndNot(text, 1, {NL})
  IN IF e > Len(text) THEN <<text>>
     ELSE <<SubSeq(text, 1, e - 1)>> \o SplitLines(SubSeq(text, e + 1, Len(text)))

\* re.match(r'^---\n(.*?)\n---\n', content, re.DOTALL): the position of the
\* "\n" that opens the closing marker, 0 when the text has no front matter
frontmatter_match(text) ==
  IF Len(text) >= 2 /\ text[1] = DASHES /\ text[2] = NL
  THEN LET closing == {j \in 3..(Len(text) - 2) :
                         text[j] = NL /\ text[j + 1] = DASHES /\ text[j + 2] = NL}
       IN IF closing = {} THEN 0 ELSE Min(closing)
  ELSE 0

\* re.sub(r'(globs:\s*)([^\n"]+)', r'\1"\2"', frontmatter_text) from position i
RECURSIVE QuoteGlobs(_, _)
QuoteGlobs(text, i) ==
  IF i > Len(text) THEN <<>>
  ELSE IF text[i] = "globs" /\ i + 1 <= Len(text) /\ text[i + 1] = ":"
       THEN LET w == RunEnd(text, i + 2, Space)
                starts == {s \in (i + 2)..w : s <= Len(text) /\ text[s] \notin {NL, QUOTE}}
            IN IF starts = {} THEN <<text[i]>> \o QuoteGlobs(text, i + 1)
               ELSE LET s == Max(starts)
                        e == RunEndNot(text, s, {NL, QUOTE})
                    IN SubSeq(text, i, s - 1) \o <<QUOTE>> \o SubSeq(text, s, e - 1)
                         \o <<QUOTE>> \o QuoteGlobs(text, e)
       ELSE <<text[i]>> \o QuoteGlobs(text, i + 1)

\* what PyYAML makes of one line of the front matter
YamlLine(line) ==
  CASE line = <<"title", ":", " ", "x">> -> [t |-> "pair", key |-> <<"title">>, value |-> <<"x">>]
    [] line = <<"name", ":", " ", QUOTE, "x", QUOTE>> ->
         [t |-> "pair", key |-> <<"name">>, value |-> <<"x">>]
    [] line = <<"globs", ":", " ", QUOTE, "*.ts", QUOTE>> ->
         [t |-> "pair", key |-> <<"globs">>, value |-> <<"*.ts">>]
    \* "mapping values are not allowed here": a ScannerError
    [] line = <<"description", ":", " ", QUOTE, "a", QUOTE, ":", " ", "b">> -> [t |-> "YAMLError"]
    \* no such day: datetime.date raises in the timestamp constructor
    [] line = <<"updated", ":", " ", "2024-02-30">> -> [t |-> "ValueError"]
    [] line = <<>> -> [t |-> "blank"]
    \* a plain scalar
    [] line = <<"draft">> -> [t |-> "scalar", value |-> <<"draft">>]
    \* an entry of a block sequence
    [] line = <<"-", " ", "x">> -> [t |-> "item", value |-> <<"x">>]

\* a mapping whose later pairs replace earlier ones with the same key
MappingOf(pairs) ==
  PyDict([key \in {pairs[i].key : i \in 1..Len(pairs)} |->
            pairs[Max({i \in 1..Len(pairs) : pairs[i].key = key})].value])

\* yaml.safe_load(frontmatter_text): the scanner runs over the whole text
\* before any value is constructed.  An empty document loads as None, plain
\* scalar lines as one string, a block sequence as a list, key: value lines
\* as a mapping; a document that mixes them is rejected.
safe_load(text) ==
  LET lines == SplitLines(text)
      loaded == SelectSeq([i \in 1..Len(lines) |-> YamlLine(lines[i])],
                          LAMBDA l : l.t # "blank")
      kinds == {loaded[i].t : i \in 1..Len(loaded)}
  IN IF kinds = {} THEN [raised |-> "", value |-> None]
     ELSE IF "YAMLError" \in kinds \/ Cardinality(kinds \ {"ValueError"}) > 1
     THEN [raised |-> "YAMLError", value |-> None]
     ELSE IF "ValueError" \in kinds
     THEN [raised |-> "ValueError", value |-> None]
     ELSE IF kinds = {"scalar"}
     THEN [raised |-> "", value |-> [t |-> "str", v |-> [i \in 1..Len(loaded) |-> loaded[i].value]]]
     ELSE IF kinds = {"item"}
     THEN [raised |-> "", value |-> PyList([i \in 1..Len(loaded) |-> loaded[i].value])]
     ELSE [raised |-> "", value |-> MappingOf(loaded)]

\* the except branch of parse: one pair per line that holds a ':'
FallbackPair(line) ==
  LET colon == RunEndNot(line, 1, {":"})
  IN [key |-> Strip(SubSeq(line, 1, colon - 1), Space),
      value |-> Strip(Strip(SubSeq(line, colon + 1, Len(line)), Space), {QUOTE})]

FallbackFrontmatter(text) ==
  LET lines == SelectSeq(SplitLines(text), LAMBDA line : \E i \in 1..Len(line) : line[i] = ":")
  IN MappingOf([i \in 1..Len(lines) |-> FallbackPair(lines[i])])

\* the match of r'^(#+\s+.*?)$' (re.MULTILINE) that starts at p, as the
\* position after it; 0 when there is none
HeadingEnd(text, p) ==
  IF (p = 1 \/ text[p - 1] = NL) /\ text[p] = "#"
  THEN LET h == RunEnd(text, p, {"#"})
           w == RunEnd(text, h, Space)
       IN IF w = h THEN 0 ELSE RunEndNot(text, w, {NL})
  ELSE 0

\* the matches re.split finds from position p on, in order
RECURSIVE Headings(_, _)
Headings(text, p) ==
  LET starts == {s \in p..Len(text) : HeadingEnd(text, s) # 0}
  IN IF starts = {} THEN <<>>
     ELSE LET s == Min(starts)
          IN <<[start |-> s, end |-> HeadingEnd(text, s)]>>
               \o Headings(text, HeadingEnd(text, s))

\* re.sub(r'^#+\s+', '', header) on the stripped header
section_name(header) ==
  LET h == RunEnd(header, 1, {"#"})
      w == RunEnd(header, h, Space)
  IN IF h > 1 /\ w > h THEN SubSeq(header, w, Len(header)) ELSE header

\* the loop over the pieces of re.split: doc.sections[section_name] = body
Sections(text) ==
  LET heads == Headings(text, 1)
      name(k) == section_name(Strip(SubSeq(text, heads[k].start, heads[k].end - 1), Space))
      body(k) == SubSeq(text, heads[k].end,
                        IF k < Len(heads) THEN heads[k + 1].start - 1 ELSE Len(text))
  IN [n \in {name(k) : k \in 1..Len(heads)} |->
        body(Max({k \in 1..Len(heads) : name(k) = n}))]

\* the matches of r'```(\w+)?\n(.*?)```' (re.DOTALL) from position p on
RECURSIVE CodeBlocksFrom(_, _)
CodeBlocksFrom(text, p) ==
  IF p > Len(text) THEN <<>>
  ELSE LET w == RunEndNot(text, p + 1, NonWord)
           closing == {k \in (w + 1)..Len(text) : text[k] = FENCE}
       IN IF text[p] = FENCE /\ w <= Len(text) /\ text[w] = NL /\ closing # {}
          THEN <<[language |-> IF w > p + 1 THEN SubSeq(text, p + 1, w - 1) ELSE <<"text">>,
                  code |-> SubSeq(text, w + 1, Min(closing) - 1)]>>
                 \o CodeBlocksFrom(text, Min(closing) + 1)
          ELSE CodeBlocksFrom(text, p + 1)

\* MDCParser.parse on a file that holds `text`
parse(text) ==
  LET m == frontmatter_match(text)
      frontmatter_text == QuoteGlobs(SubSeq(text, 3, m - 1), 1)
      loaded == safe_load(frontmatter_text)
      rest == IF m = 0 THEN text ELSE SubSeq(text, m + 3, Len(text))
  IN IF m # 0 /\ loaded.raised \notin {"", "YAMLError"}
     THEN [raised |-> loaded.raised, frontmatter |-> None,
           sections |-> <<>>, code_blocks |-> <<>>]
     ELSE [raised |-> "",
           frontmatter |-> IF m = 0 THEN PyDict(<<>>)
                           ELSE IF loaded.raised = "YAMLError"
                                THEN FallbackFrontmatter(frontmatter_text)
                                ELSE loaded.value,
           sections |-> Sections(rest),
           code_blocks |-> CodeBlocksFrom(rest, 1)]

(***************************************************************************)
(* parse called on its own: rules files written line by line.              *)
(***************************************************************************)
BodyLines ==
  { <<"#", " ", "a">>, <<"#", "#", " ", "b">>, <<"t">>,
    <<FENCE>>, <<FENCE, "js">>, <<FENCE, "c", "+", "+">> }

FrontLines ==
  { <<"title", ":", " ", "x">>,
    <<"name", ":", " ", QUOTE, "x", QUOTE>>,
    <<"globs", ":", " ", "*.ts">>,
    <<"description", ":", " ", QUOTE, "a", QUOTE, ":", " ", "b">>,
    <<"updated", ":", " ", "2024-02-30">> }

\* delimiter blocks that hold no key: value line: an empty line, a plain
\* scalar, a block sequence
OtherFronts ==
  { << <<>> >>, << <<"draft">> >>, << <<"-", " ", "x">> >>,
    << <<"-", " ", "x">>, <<"-", " ", "x">> >>, << <<"title", ":", " ", "x">>, <<>> >> }

\* the body the files with front matter have
FrontedBody == << <<"#", " ", "a">>, <<FENCE>>, <<"t">>, <<FENCE>> >>

\* the text of a file: every line ends with "\n"
RECURSIVE Render(_)
Render(lines) ==
  IF lines = <<>> THEN <<>> ELSE Head(lines) \o <<NL>> \o Render(Tail(lines))

RulesFiles ==
  { [fn |-> "parse", front |-> <<>>, lines |-> lines] :
      lines \in SeqsUpTo(BodyLines, MaxLines) }
  \cup { [fn |-> "parse", front |-> front, lines |-> FrontedBody] :
      front \in (SeqsUpTo(FrontLines, MaxLines) \ {<<>>}) \cup OtherFronts }

FileText(file) ==
  IF file.front = <<>> THEN Render(file.lines)
  ELSE <<DASHES, NL>> \o Render(file.front) \o <<DASHES, NL>> \o Render(file.lines)

main_vars == <<seen, pc, exit_code, exit_at, mdc_doc, rules, config_files, evaluated,
               content, violations, passed_rules, last_report, all_passed, reports>>

\* main() is not running
NoMain ==
  /\ seen = <<>>
  /\ pc = "none"
  /\ exit_code = -1
  /\ exit_at = ""
  /\ mdc_doc = NoDocument
  /\ rules = <<>>
  /\ config_files = <<>>
  /\ evaluated = 0
  /\ content = NoContent
  /\ violations = <<>>
  /\ passed_rules = <<>>
  /\ last_report = NoReport
  /\ all_passed = TRUE
  /\ reports = <<>>

ParseInit ==
  /\ NoMain
  /\ NoScript
  /\ arg \in RulesFiles
  /\ ret = NoCall

Parse ==
  /\ arg.fn = "parse"
  /\ ret = NoCall
  /\ ret' = parse(FileText(arg))
  /\ UNCHANGED arg
  /\ UNCHANGED <<main_vars, script_vars>>

ParseNext == Parse

ParseSpec == ParseInit /\ [][ParseNext]_vars

\* parse has returned a document for the file
Parsed == arg.fn = "parse" /\ ret # NoCall /\ ret.raised = ""

IsHeading(line) == line # <<>> /\ line[1] = "#"
Title(line) == SubSeq(line, RunEnd(line, RunEnd(line, 1, {"#"}), Space), Len(line))
HeadingLines(lines) == {k \in 1..Len(lines) : IsHeading(lines[k])}
\* the lines after heading k, up to the next heading
BodyOf(lines, k) ==
  SubSeq(lines, k + 1, Min({j \in (k + 1)..(Len(lines) + 1) :
                              j = Len(lines) + 1 \/ IsHeading(lines[j])}) - 1)

\* C11: the text before the first heading is stored as section "root", and
\* every heading's title keys the text that follows its line up to the next
\* heading (the last heading of a title wins).
C11_RootAndTitledSections ==
  (Parsed /\ arg.front = <<>>) =>
    LET lines == arg.lines
        first == Min(HeadingLines(lines) \cup {Len(lines) + 1})
    IN /\ <<"root">> \in DOMAIN ret.sections
       /\ ret.sections[<<"root">>] = Render(SubSeq(lines, 1, first - 1))
       /\ \A k \in HeadingLines(lines) :
            /\ Title(lines[k]) \in DOMAIN ret.sections
            /\ LET last == Max({j \in HeadingLines(lines) : Title(lines[j]) = Title(lines[k])})
               IN ret.sections[Title(lines[k])] = <<NL>> \o Render(BodyOf(lines, last))

IsFence(line) == line # <<>> /\ line[1] = FENCE
\* the fence lines of the file, in order
FenceLines(lines) == SelectSeq([k \in 1..Len(lines) |-> k], LAMBDA k : IsFence(lines[k]))

\* C12: the code blocks are the matched pairs of fences, whatever follows the
\* opening fence on its line: as many blocks as pairs, in document order,
\* each body the lines between its two fences.
C12_BlocksAreFencePairs ==
  (Parsed /\ arg.front = <<>>) =>
    LET lines == arg.lines
        fences == FenceLines(lines)
    IN /\ Len(ret.code_blocks) = Len(fences) \div 2
       /\ \A k \in 1..Len(ret.code_blocks) :
            ret.code_blocks[k].code =
              Render(SubSeq(lines, fences[2 * k - 1] + 1, fences[2 * k] - 1))

\* structured parsing of the file's front matter fails
StructuredFails ==
  safe_load(QuoteGlobs(Strip(Render(arg.front), {NL}), 1)).raised # ""

\* key and value of a front matter line as the text around its first ':'
TrimmedPair(line) ==
  LET colon == RunEndNot(line, 1, {":"})
  IN [key |-> Strip(SubSeq(line, 1, colon - 1), Space),
      value |-> Strip(SubSeq(line, colon + 1, Len(line)), Space)]

\* C13: parse never raises on front matter; when structured parsing fails the
\* front matter is the mapping of every line with a ':' (trimmed text before
\* the first ':' to trimmed remainder), and sections and code blocks are
\* parsed all the same.
C13_MalformedFrontMatterFallsBack ==
  (arg.fn = "parse" /\ ret # NoCall /\ arg.front # <<>>) =>
    /\ ret.raised = ""
    /\ StructuredFails =>
         ret.frontmatter =
           MappingOf([i \in 1..Len(arg.front) |-> TrimmedPair(arg.front[i])])
    /\ ret.sections = Sections(Render(arg.lines))
    /\ ret.code_blocks = CodeBlocksFrom(Render(arg.lines), 1)

(***************************************************************************)
(* The cleaning of a configuration file's text in evaluate, before         *)
(* json.loads.  Here every element of a text is one character.             *)
(***************************************************************************)
MaxItems == 3
MaxChars == 5

BACKSLASH == "\\"
CR == "\r"
\* the passes of the trailing-comma loop
Passes == 3

\* the position of the closing quote of r'"[^"\\]*(?:\\.[^"\\]*)*"', scanning
\* the inside of the literal from j; 0 when the pattern does not match
RECURSIVE StringEnd(_, _)
StringEnd(text, j) ==
  IF j > Len(text) THEN 0
  ELSE IF text[j] = QUOTE THEN j
  ELSE IF text[j] = BACKSLASH
       THEN IF j + 1 > Len(text) \/ text[j + 1] = NL THEN 0
            ELSE StringEnd(text, j + 2)
       ELSE StringEnd(text, j + 1)

\* f"__STRING_{uuid.uuid4().hex}__": one name per replaced literal
Placeholders ==
  <<"__STRING_1__", "__STRING_2__", "__STRING_3__", "__STRING_4__",
    "__STRING_5__", "__STRING_6__", "__STRING_7__", "__STRING_8__">>

\* re.sub with replace_string: acc.out is the text so far, acc.strings the
\* literals taken out (string_placeholders, in insertion order)
RECURSIVE ProtectStrings(_, _, _)
ProtectStrings(text, i, acc) ==
  IF i > Len(text) THEN acc
  ELSE LET e == IF text[i] = QUOTE THEN StringEnd(text, i + 1) ELSE 0
       IN IF e # 0
          THEN ProtectStrings(text, e + 1,
                 [out |-> Append(acc.out, Placeholders[Len(acc.strings) + 1]),
                  strings |-> Append(acc.strings, SubSeq(text, i, e))])
          ELSE ProtectStrings(text, i + 1, [acc EXCEPT !.out = Append(@, text[i])])

\* re.sub(r'/\*[^*]*\*+(?:[^/*][^*]*\*+)*/', '', content): from "/*" to the
\* first "*/" after it
RECURSIVE RemoveBlockComments(_, _)
RemoveBlockComments(text, i) ==
  IF i > Len(text) THEN <<>>
  ELSE LET closing == {k \in (i + 2)..(Len(text) - 1) : text[k] = "*" /\ text[k + 1] = "/"}
       IN IF text[i] = "/" /\ i < Len(text) /\ text[i + 1] = "*" /\ closing # {}
          THEN RemoveBlockComments(text, Min(closing) + 2)
          ELSE <<text[i]>> \o RemoveBlockComments(text, i + 1)

\* re.sub(r'//[^\n\r]*', '', content)
RECURSIVE RemoveLineComments(_, _)
RemoveLineComments(text, i) ==
  IF i > Len(text) THEN <<>>
  ELSE IF text[i] = "/" /\ i < Len(text) /\ text[i + 1] = "/"
       THEN RemoveLineComments(text, RunEndNot(text, i + 2, {NL, CR}))
       ELSE <<text[i]>> \o RemoveLineComments(text, i + 1)

\* content.replace(placeholder, original) for every placeholder
RECURSIVE RestoreStrings(_, _)
RestoreStrings(text, strings) ==
  IF text = <<>> THEN <<>>
  ELSE LET named == {k \in 1..Len(strings) : Placeholders[k] = Head(text)}
       IN (IF named = {} THEN <<Head(text)>> ELSE strings[Min(named)])
            \o RestoreStrings(Tail(text), strings)

\* StripTrailingCommas with the closing bracket left out of the pattern
RECURSIVE StripTrailingCommasBraceOnly(_, _)
StripTrailingCommasBraceOnly(text, i) ==
  IF i > Len(text) THEN <<>>
  ELSE LET w == RunEnd(text, i + 1, Space)
       IN IF text[i] = "," /\ w <= Len(text) /\ text[w] = "}"
          THEN SubSeq(text, i + 1, w) \o StripTrailingCommasBraceOnly(text, w + 1)
          ELSE <<text[i]>> \o StripTrailingCommasBraceOnly(text, i + 1)

\* one re.sub(r',(\s*[}\]])', r'\1', content)
RECURSIVE StripTrailingCommas(_, _)
StripTrailingCommas(text, i) ==
  IF i > Len(text) THEN <<>>
  ELSE LET w == RunEnd(text, i + 1, Space)
       IN IF text[i] = "," /\ w <= Len(text) /\ text[w] \in {"}", "]"}
          THEN SubSeq(text, i + 1, w) \o StripTrailingCommas(text, w + 1)
          ELSE <<text[i]>> \o StripTrailingCommas(text, i + 1)

\* for _ in range(n): the strip above
RECURSIVE StripPasses(_, _)
StripPasses(text, n) ==
  IF n = 0 THEN text ELSE StripPasses(StripTrailingCommas(text, 1), n - 1)

\* the text after the comments are removed and the strings restored
StripComments(text) ==
  LET protected == ProtectStrings(text, 1, [out |-> <<>>, strings |-> <<>>])
  IN RestoreStrings(RemoveLineComments(RemoveBlockComments(protected.out, 1), 1),
                    protected.strings)

\* the text evaluate hands to json.loads, and the stage before the commas
clean(text) ==
  LET stripped == StripComments(text)
  IN [stripped |-> stripped, cleaned |-> StripPasses(stripped, Passes)]

(***************************************************************************)
(* The cleaning called on its own, on texts written item by item.          *)
(***************************************************************************)
StringItems ==
  { <<QUOTE, "a", QUOTE>>, <<QUOTE, "/", "/", QUOTE>>, <<QUOTE, "/", "*", QUOTE>>,
    <<QUOTE, BACKSLASH, QUOTE, "/", "/", QUOTE>> }
\* a line comment comes with the newline that ends it
CommentItems ==
  { <<"/", "/", "a", NL>>, <<"/", "*", "a", "*", "/">>,
    <<"/", "/", QUOTE, NL>>, <<"/", "*", QUOTE, "*", "/">> }
JsoncItems == StringItems \cup CommentItems \cup {<<"1">>}

CommaChars == { <<",">>, <<" ">>, <<"}">>, <<"]">>, <<"1">> }

\* {"a":1,} and {"a":[1,2,],}
TrailingCommaExamples ==
  { << <<"{">>, <<QUOTE, "a", QUOTE>>, <<":">>, <<"1">>, <<",">>, <<"}">> >>,
    << <<"{">>, <<QUOTE, "a", QUOTE>>, <<":">>, <<"[">>, <<"1">>, <<",">>, <<"2">>,
       <<",">>, <<"]">>, <<",">>, <<"}">> >> }

\* string literals that hold a comma before a closing brace or bracket, and
\* what makes arrays of them
CommaStringItems ==
  { <<QUOTE, ",", "}", QUOTE>>, <<QUOTE, ",", "]", QUOTE>>, <<QUOTE, ",", " ", "}", QUOTE>>,
    <<QUOTE, "a", QUOTE>>, <<"[">>, <<"]">>, <<",">> }

ConfigTexts ==
  { [fn |-> "clean", items |-> items] :
      items \in SeqsUpTo(JsoncItems, MaxItems) \cup SeqsUpTo(CommaStringItems, MaxItems) }
  \cup { [fn |-> "clean", items |-> items] :
           items \in SeqsUpTo(CommaChars, MaxChars) \cup TrailingCommaExamples }

RECURSIVE Concat(_)
Concat(items) == IF items = <<>> THEN <<>> ELSE Head(items) \o Concat(Tail(items))

CleanInit ==
  /\ NoMain
  /\ NoScript
  /\ arg \in ConfigTexts
  /\ ret = NoCall

Clean ==
  /\ arg.fn = "clean"
  /\ ret = NoCall
  /\ ret' = clean(Concat(arg.items))
  /\ UNCHANGED arg
  /\ UNCHANGED <<main_vars, script_vars>>

CleanNext == Clean

CleanSpec == CleanInit /\ [][CleanNext]_vars

Cleaned == arg.fn = "clean" /\ ret # NoCall
IsComment(item) == item # <<>> /\ item[1] = "/"
IsString(item) == item # <<>> /\ item[1] = QUOTE
\* the text without its comments: of a line comment its newline stays
RECURSIVE Uncommented(_)
Uncommented(items) ==
  IF items = <<>> THEN <<>>
  ELSE (IF IsComment(Head(items))
        THEN (IF Head(items)[Len(Head(items))] = NL THEN <<NL>> ELSE <<>>)
        ELSE Head(items)) \o Uncommented(Tail(items))

\* C14: comment stripping returns the text with the block and line comments
\* outside string literals removed and everything else, string literals
\* with // or /* in them included, as it was; a text without comments comes
\* back unchanged.
C14_CommentsStrippedStringsKept ==
  Cleaned => ret.stripped = Uncommented(arg.items)

Closers == {"}", "]"}
\* the first element after position i that is not in S, "" at the end
NextNotIn(text, i, S) ==
  LET e == RunEnd(text, i + 1, S)
  IN IF e > Len(text) THEN "" ELSE text[e]
\* the comma at i precedes a closing brace or bracket, whitespace apart
TrailingCommaAt(text, i) ==
  text[i] = "," /\ NextNotIn(text, i, Space) \in Closers
\* the comma at i is one of a run of commas that ends before a closer
InTrailingRun(text, i) ==
  text[i] = "," /\ NextNotIn(text, i, Space \cup {","}) \in Closers
\* no more than n commas follow each other, whitespace apart
CommaRunsAtMost(text, n) ==
  LET dense == SelectSeq(text, LAMBDA c : c \notin Space)
  IN \A i \in 1..(Len(dense) - n) : \E k \in i..(i + n) : dense[k] # ","
WithoutTrailingRuns(text) ==
  LET kept == SelectSeq([i \in 1..Len(text) |-> i], LAMBDA i : ~InTrailingRun(text, i))
  IN [k \in 1..Len(kept) |-> text[kept[k]]]

\* C15: the trailing-comma strip removes the commas that precede a closing
\* brace or bracket, nested ones included, and nothing else: {"a":1,} becomes
\* {"a":1}, {"a":[1,2,],} becomes {"a":[1,2]}, and after the three passes no
\* closing brace or bracket is preceded by a comma (for texts with at most
\* three commas in a row).
C15_TrailingCommasStripped ==
  (Cleaned /\ CommaRunsAtMost(ret.stripped, Passes)) =>
    /\ ret.cleaned = WithoutTrailingRuns(ret.stripped)
    /\ \A i \in 1..Len(ret.cleaned) : ~TrailingCommaAt(ret.cleaned, i)
    /\ arg.items = << <<"{">>, <<QUOTE, "a", QUOTE>>, <<":">>, <<"1">>, <<",">>, <<"}">> >>
         => ret.cleaned = <<"{", QUOTE, "a", QUOTE, ":", "1", "}">>
    /\ Len(arg.items) = 11 /\ arg.items \in TrailingCommaExamples
         => ret.cleaned = <<"{", QUOTE, "a", QUOTE, ":", "[", "1", ",", "2", "]", "}">>

\* the nested example has been cleaned
C15_Witness ==
  /\ Cleaned
  /\ Concat(arg.items) = <<"{", QUOTE, "a", QUOTE, ":", "[", "1", ",", "2", ",", "]", ",", "}">>
  /\ ret.cleaned = <<"{", QUOTE, "a", QUOTE, ":", "[", "1", ",", "2", "]", "}">>

\* the string literals of a text, in order
Literals(text) == ProtectStrings(text, 1, [out |-> <<>>, strings |-> <<>>]).strings
HasComment(items) == \E i \in 1..Len(items) : IsComment(items[i])
\* a literal with a comma that only whitespace parts from a closer
CommaBeforeCloser(item) ==
  IsString(item) /\ \E i \in 1..Len(item) : TrailingCommaAt(item, i)

\* C23: the cleaning pipeline (string protection, comment removal, string
\* restoration, trailing-comma stripping) leaves every string literal as it
\* was, a literal that holds ",}" or ",]" included.
C23_StringLiteralsUnchanged ==
  Cleaned => Literals(ret.cleaned) = SelectSeq(arg.items, IsString)

\* the same for texts without comments
C23_UncommentedLiteralsUnchanged ==
  (Cleaned /\ ~HasComment(arg.items))
    => Literals(ret.cleaned) = SelectSeq(arg.items, IsString)

\* the same for texts without comments whose literals hold no comma before
\* a closing brace or bracket
C23_OtherLiteralsUnchanged ==
  (Cleaned /\ ~HasComment(arg.items)
     /\ \A i \in 1..Len(arg.items) : ~CommaBeforeCloser(arg.items[i]))
    => Literals(ret.cleaned) = SelectSeq(arg.items, IsString)

StrictPath == <<"compilerOptions", "strict">>
StrictRuleId == "ts-strict-types"
\* the file's compilerOptions.strict is false
StrictIsFalse(file) ==
  /\ file.kind = "json"
  /\ PathReaches(StrictPath, file.config)
  /\ ValueStored(StrictPath, file.config) = PyBool(FALSE)
WithId(rs, id) == {i \in 1..Len(rs) : rs[i].id = id}
ViolationsOf(vs, id) == {i \in 1..Len(vs) : vs[i].rule.id = id}

\* C16: a document whose section 'Typescript guidelines' contains 'Be strict
\* with types' gives one rule ts-strict-types, and evaluating that rule set on
\* a config whose compilerOptions.strict is false gives exactly one violation
\* with that rule id, of Error severity and with actual_value false.
C16_Step ==
  /\ (/\ pc = "extract"
      /\ TsSection \in DOMAIN mdc_doc.sections
      /\ StrictPhrase \in mdc_doc.sections[TsSection])
       => Cardinality(WithId(rules', StrictRuleId)) = 1
  /\ (/\ pc = "evaluate"
      /\ exit_at' # "traceback"
      /\ StrictIsFalse(content')
      /\ WithId(rules, StrictRuleId) # {})
       => /\ Cardinality(ViolationsOf(violations', StrictRuleId)) = 1
          /\ \A i \in ViolationsOf(violations', StrictRuleId) :
               /\ violations'[i].rule.severity = ERROR
               /\ violations'[i].actual_value = PyBool(FALSE)
C16_StrictFalseIsOneErrorViolation == [][C16_Step]_vars

\* a file with strict false has been evaluated against the strict rule
C16_Witness ==
  /\ Returned
  /\ StrictIsFalse(content)
  /\ WithId(rules, StrictRuleId) # {}
  /\ ViolationsOf(violations, StrictRuleId) # {}

(***************************************************************************)
(* validate_tsgo_setup.py: TSGOValidator.  A log holds the three message   *)
(* lists and the exception that has left the step, "" for none.            *)
(***************************************************************************)
NewLog(es, ws, ss) == [errors |-> es, warnings |-> ws, successes |-> ss, raised |-> ""]
print_error(log, text) == [log EXCEPT !.errors = Append(@, text)]
print_warning(log, text) == [log EXCEPT !.warnings = Append(@, text)]
print_success(log, text) == [log EXCEPT !.successes = Append(@, text)]
Raise(log, exception) == [log EXCEPT !.raised = exception]

\* the dev script with dev:typecheck appended n times
RECURSIVE RunAllDev(_)
RunAllDev(n) ==
  IF n = 0 THEN "npm-run-all --parallel dev:frontend dev:backend"
  ELSE RunAllDev(n - 1) \o " dev:typecheck"

\* `needle in script` for the script commands of the model
ScriptParts ==
  { <<RunAllDev(n), part>> : n \in 2..6, part \in {"npm-run-all", "dev:typecheck", "dev:backend"} }
  \cup
  { <<"tsgo --noEmit --project tsconfig.app.json", "tsgo">>,
    <<"tsgo --noEmit --project tsconfig.app.json", "tsc">>,
    <<"tsgo --watch --noEmit --project tsconfig.app.json", "tsgo">>,
    <<"tsgo --watch --noEmit --project tsconfig.app.json", "tsc">>,
    <<"tsc --noEmit", "tsc">>,
    <<"tsc -b && vite build", "tsc">>,
    <<"convex dev --typecheck=disable", "--typecheck=disable">>,
    <<"convex dev --typecheck=disable", "convex dev">>,
    <<"npm-run-all --parallel dev:frontend dev:backend dev:typecheck", "npm-run-all">>,
    <<"npm-run-all --parallel dev:frontend dev:backend dev:typecheck", "dev:typecheck">>,
    <<"npm-run-all --parallel dev:frontend dev:backend dev:typecheck", "dev:backend">>,
    <<"npm-run-all --parallel dev:frontend dev:backend", "npm-run-all">>,
    <<"npm-run-all --parallel dev:frontend dev:backend", "dev:backend">>,
    <<"npm-run-all build:typecheck build:app", "npm-run-all">>,
    <<"npm run typecheck && convex deploy --typecheck=disable", "--typecheck=disable">>,
    <<"npm run typecheck && convex deploy --typecheck=disable --prod", "--typecheck=disable">> }
InScript(needle, script) == script = needle \/ <<script, needle>> \in ScriptParts

\* validate_json_file on a file of the given kind: the loaded data and the log
validate_json_file(file, description, log) ==
  CASE file.kind = "missing" ->
         [data |-> None, log |-> print_error(log, <<description, "missing">>)]
    [] file.kind = "invalid" ->
         [data |-> None,
          log |-> print_error(print_success(log, <<description, "exists">>),
                              <<description, "has invalid JSON">>)]
    [] file.kind = "json" ->
         [data |-> file.config,
          log |-> print_success(print_success(log, <<description, "exists">>),
                                <<description, "is valid JSON">>)]

\* dict.get(key, {}) on a mapping
Get(mapping, key) ==
  IF key \in DOMAIN mapping.v THEN mapping.v[key] ELSE PyDict(<<>>)

\* the body of the loop of validate_tsconfig_files for one file
ValidateTsconfig(file, description, log) ==
  LET loaded == validate_json_file(file, description, log)
      config == loaded.data
  IN IF ~Truthy(config) THEN loaded.log
     ELSE IF InRaises(config) THEN Raise(loaded.log, "TypeError")
     ELSE IF ~PyIn("compilerOptions", config) THEN loaded.log
     ELSE IF ~IsDict(config) THEN Raise(loaded.log, "TypeError")
     ELSE IF ~IsDict(config.v["compilerOptions"]) THEN Raise(loaded.log, "AttributeError")
     ELSE IF Truthy(Get(config.v["compilerOptions"], "composite")) THEN loaded.log
     ELSE print_warning(loaded.log, <<"Composite mode not enabled in", description>>)

tsconfig_descriptions ==
  <<"Root tsconfig.json", "Application tsconfig", "Node tsconfig", "Convex tsconfig">>

RECURSIVE validate_tsconfig_files(_, _, _)
validate_tsconfig_files(files, i, log) ==
  IF i > Len(tsconfig_descriptions) \/ log.raised # "" THEN log
  ELSE validate_tsconfig_files(files, i + 1,
         ValidateTsconfig(files[i], tsconfig_descriptions[i], log))

required_scripts == <<"dev", "build", "typecheck", "dev:typecheck">>

\* the loop of validate_package_json over required_scripts
RECURSIVE ValidateScripts(_, _, _)
ValidateScripts(scripts, i, log) ==
  IF i > Len(required_scripts) THEN log
  ELSE LET script_name == required_scripts[i]
       IN ValidateScripts(scripts, i + 1,
            IF script_name \in DOMAIN scripts.v
            THEN IF InScript("tsgo", scripts.v[script_name].v) \/ script_name = "dev"
                 THEN print_success(log, <<script_name, "configured">>)
                 ELSE IF InScript("tsc", scripts.v[script_name].v)
                      THEN print_warning(log, <<script_name, "still using tsc">>)
                      ELSE log
            ELSE print_warning(log, <<script_name, "missing">>))

validate_package_json(file, log) ==
  LET loaded == validate_json_file(file, "package.json", log)
      package_json == loaded.data
  IN IF ~Truthy(package_json) THEN loaded.log
     ELSE IF ~IsDict(package_json) THEN Raise(loaded.log, "AttributeError")
     ELSE LET dev_deps == Get(package_json, "devDependencies")
              tsgo == IF "@typescript/native-preview" \in DOMAIN dev_deps.v
                      THEN print_success(loaded.log, <<"TSGO installed">>)
                      ELSE print_error(loaded.log, <<"TSGO not found in devDependencies">>)
              run_all == IF "npm-run-all" \in DOMAIN dev_deps.v
                         THEN print_success(tsgo, <<"npm-run-all installed">>)
                         ELSE print_error(tsgo, <<"npm-run-all not found in devDependencies">>)
          IN ValidateScripts(Get(package_json, "scripts"), 1, run_all)

\* what `npx tsgo --version` comes to
TsgoOutcomes == {"native", "other version", "nonzero", "timeout", "no npx"}
validate_tsgo_installation(outcome, log) ==
  CASE outcome = "native" -> print_success(log, <<"TSGO binary found">>)
    [] outcome = "other version" ->
         print_warning(print_success(log, <<"TSGO binary found">>),
                       <<"Not using the native preview version">>)
    [] outcome = "nonzero" -> print_error(log, <<"TSGO binary error">>)
    [] outcome = "timeout" -> print_error(log, <<"TSGO version check timed out">>)
    [] outcome = "no npx" -> print_error(log, <<"npx command not found">>)

convex_scripts == <<"dev:backend", "convex:deploy", "convex:deploy:prod">>

RECURSIVE ValidateConvexScripts(_, _, _)
ValidateConvexScripts(scripts, i, log) ==
  IF i > Len(convex_scripts) THEN log
  ELSE LET script_name == convex_scripts[i]
       IN ValidateConvexScripts(scripts, i + 1,
            IF script_name \in DOMAIN scripts.v
            THEN IF InScript("--typecheck=disable", scripts.v[script_name].v)
                 THEN print_success(log, <<script_name, "configured with --typecheck=disable">>)
                 ELSE print_warning(log, <<script_name, "not using --typecheck=disable flag">>)
            ELSE log)

\* json.loads(open("package.json").read()) is not inside a try
validate_convex_integration(file, log) ==
  CASE file.kind = "missing" -> Raise(log, "FileNotFoundError")
    [] file.kind = "invalid" -> Raise(log, "JSONDecodeError")
    [] file.kind = "json" ->
         IF ~IsDict(file.config) THEN Raise(log, "AttributeError")
         ELSE ValidateConvexScripts(Get(file.config, "scripts"), 1, log)

\* what validate_build_cache finds in node_modules/.tmp
CacheStates == {"no directory", "build cache files"}
validate_build_cache(cache, log) ==
  IF cache = "build cache files"
  THEN print_success(print_success(log, <<"Build cache directory exists">>),
                     <<"Found build cache files">>)
  ELSE log

\* what `npm run typecheck` comes to, how long it took, and what the
\* comparison run of `npm run typecheck:tsc` comes to
NpmOutcomes == {"timeout", "no npm", "ok", "unexpected errors"}
ElapsedClasses == {"excellent", "slow"}
TscOutcomes == {"faster", "timeout"}

\* the try block of run_performance_test; every exception is caught
run_performance_test(file, npm, elapsed, tsc, log) ==
  IF npm = "timeout" THEN print_error(log, <<"Type checking timed out (> 10 seconds)">>)
  ELSE IF npm = "no npm" THEN print_error(log, <<"Error during performance test">>)
  ELSE LET checked == IF npm = "ok"
                      THEN print_success(log, <<"Type checking completed successfully">>)
                      ELSE print_warning(log, <<"Type checking completed with unexpected errors">>)
           timed == IF elapsed = "excellent"
                    THEN print_success(checked, <<"Performance EXCELLENT">>)
                    ELSE print_error(checked, <<"Performance SLOW">>)
       IN IF file.kind # "json" \/ ~IsDict(file.config)
          THEN print_error(timed, <<"Error during performance test">>)
          ELSE IF "typecheck:tsc" \in DOMAIN Get(file.config, "scripts").v
               THEN IF tsc = "timeout"
                    THEN print_error(timed, <<"Type checking timed out (> 10 seconds)">>)
                    ELSE print_success(timed, <<"TSGO is faster than tsc">>)
               ELSE timed

\* what print_summary prints and returns
print_summary(log) ==
  [passed |-> Len(log.successes), warnings |-> Len(log.warnings),
   failed |-> Len(log.errors),
   total_checks |-> Len(log.successes) + Len(log.errors) + Len(log.warnings),
   status |-> IF log.errors = <<>> THEN 0 ELSE 1]

(***************************************************************************)
(* The project directories the validator runs in.                          *)
(***************************************************************************)
Entries(keys, value) == PyDict([k \in keys |-> value])

TsgoPackage ==
  PyDict([devDependencies |->
            Entries({"@typescript/native-preview", "npm-run-all"}, PyStr("^1")),
          dependencies |-> Entries({"convex"}, PyStr("^1")),
          scripts |-> PyDict(
            [k \in {"dev", "build", "typecheck", "dev:typecheck", "dev:backend"} |->
               PyStr(CASE k = "dev" -> "npm-run-all --parallel dev:frontend dev:backend dev:typecheck"
                       [] k = "build" -> "npm-run-all build:typecheck build:app"
                       [] k = "typecheck" -> "tsgo --noEmit --project tsconfig.app.json"
                       [] k = "dev:typecheck" -> "tsgo --watch --noEmit --project tsconfig.app.json"
                       [] k = "dev:backend" -> "convex dev --typecheck=disable")])])

TscPackage ==
  PyDict([dependencies |-> Entries({"convex"}, PyStr("^1")),
          scripts |-> PyDict(
            [k \in {"dev", "build", "typecheck", "typecheck:tsc", "dev:backend"} |->
               PyStr(CASE k = "dev" -> "vite"
                       [] k = "build" -> "tsc -b && vite build"
                       [] k = "typecheck" -> "tsc --noEmit"
                       [] k = "typecheck:tsc" -> "tsc --noEmit"
                       [] k = "dev:backend" -> "convex dev")])])

PackageFiles ==
  {FileMissing, FileInvalid, FileJson(PyDict(<<>>)), FileJson(TsgoPackage), FileJson(TscPackage)}

CompositeTsconfig ==
  PyDict([compilerOptions |->
            PyDict([composite |-> PyBool(TRUE), incremental |-> PyBool(TRUE),
                    target |-> PyStr("ESNext")])])

TsconfigFiles ==
  {FileMissing, FileInvalid, FileJson(PyNum(1)), FileJson(CompositeTsconfig),
   FileJson(PyDict([compilerOptions |-> PyDict(GoodOptions)]))}

(***************************************************************************)
(* TSGOValidator.run_all_validations                                       *)
(***************************************************************************)
ValidateInit ==
  /\ NoMain
  /\ arg = NoCall
  /\ ret = NoCall
  /\ step = "validate_tsconfig_files"
  /\ project \in {[package_json |-> file] : file \in PackageFiles}
  /\ errors = <<>>
  /\ warnings = <<>>
  /\ successes = <<>>
  /\ fixes_applied = <<>>
  /\ fixes_failed = <<>>

Log == NewLog(errors, warnings, successes)

\* the step has left `log`; go on with `next` unless an exception left it
StepDone(log, next) ==
  /\ errors' = log.errors
  /\ warnings' = log.warnings
  /\ successes' = log.successes
  /\ IF log.raised # ""
     THEN \* the exception leaves main(): traceback, exit status 1
          step' = "traceback"
            /\ ret' = [raised |-> log.raised, value |-> None, exit_status |-> 1]
     ELSE step' = next /\ UNCHANGED ret
  /\ UNCHANGED <<arg, project, fixes_applied, fixes_failed>>
  /\ UNCHANGED main_vars

ValidateTsconfigFiles ==
  /\ step = "validate_tsconfig_files"
  /\ \E files \in [1..Len(tsconfig_descriptions) -> TsconfigFiles] :
       StepDone(validate_tsconfig_files(files, 1, Log), "validate_package_json")

ValidatePackageJson ==
  /\ step = "validate_package_json"
  /\ StepDone(validate_package_json(project.package_json, Log), "validate_tsgo_installation")

ValidateTsgoInstallation ==
  /\ step = "validate_tsgo_installation"
  /\ \E outcome \in TsgoOutcomes :
       StepDone(validate_tsgo_installation(outcome, Log), "validate_convex_integration")

ValidateConvexIntegration ==
  /\ step = "validate_convex_integration"
  /\ StepDone(validate_convex_integration(project.package_json, Log), "validate_build_cache")

ValidateBuildCache ==
  /\ step = "validate_build_cache"
  /\ \E cache \in CacheStates :
       StepDone(validate_build_cache(cache, Log), "run_performance_test")

RunPerformanceTest ==
  /\ step = "run_performance_test"
  /\ \E npm \in NpmOutcomes, elapsed \in ElapsedClasses, tsc \in TscOutcomes :
       StepDone(run_performance_test(project.package_json, npm, elapsed, tsc, Log),
                "print_summary")

\* sys.exit(value): None ends the process with status 0, an integer with
\* that integer
sys_exit(value) == IF IsNone(value) THEN 0 ELSE value.v

\* print_summary's status is dropped: run_all_validations returns None,
\* which main() hands to sys.exit
PrintSummary ==
  /\ step = "print_summary"
  /\ step' = "done"
  /\ ret' = [raised |-> "", value |-> None, summary |-> print_summary(Log),
             exit_status |-> sys_exit(None)]
  /\ UNCHANGED <<arg, project, errors, warnings, successes, fixes_applied, fixes_failed>>
  /\ UNCHANGED main_vars

ValidateNext ==
  \/ ValidateTsconfigFiles
  \/ ValidatePackageJson
  \/ ValidateTsgoInstallation
  \/ ValidateConvexIntegration
  \/ ValidateBuildCache
  \/ RunPerformanceTest
  \/ PrintSummary

ValidateSpec == ValidateInit /\ [][ValidateNext]_vars

\* the validator has come to an end, with the summary or with a traceback
ValidationEnded == step \in {"done", "traceback"}
Recorded(text) == \E i \in 1..Len(errors) : errors[i] = text

\* C17: run_all_validations always comes to print_summary: whatever a step
\* finds (a missing or invalid package.json or tsconfig file, a failing or
\* missing command) is recorded as an error or warning and the run goes on.
C17_AlwaysReachesSummary ==
  /\ step # "traceback"
  /\ step = "done" =>
       /\ project.package_json.kind = "missing" => Recorded(<<"package.json", "missing">>)
       /\ project.package_json.kind = "invalid" =>
            Recorded(<<"package.json", "has invalid JSON">>)

\* C22: the exit code of validate_tsgo_setup.py is 1 if and only if at least
\* one error was recorded when print_summary ran, and 0 otherwise.
C22_ExitCodeTellsErrors ==
  step = "done" =>
    /\ ret.exit_status = (IF errors # <<>> THEN 1 ELSE 0)
    /\ ret.exit_status = ret.summary.status

\* the half that holds: a run without errors ends with status 0
C22_NoErrorsExitZero ==
  (step = "done" /\ errors = <<>>) => ret.exit_status = 0

(***************************************************************************)
(* fix_tsgo_setup.py: TSGOAutoFixer.  A fixer state holds the files and    *)
(* backups of the project, the two message lists and the exception that    *)
(* has left the step, "" for none.                                         *)
(***************************************************************************)
JsonPaths == {"tsconfig.json", "tsconfig.app.json", "tsconfig.node.json", "package.json"}

fix_success(fx, text) == [fx EXCEPT !.applied = Append(@, text)]
fix_error(fx, text) == [fx EXCEPT !.failed = Append(@, text)]

\* backup_file: copy_ok is whether shutil.copy2 goes through
backup_file(fx, path, copy_ok) ==
  IF fx.files[path].kind = "missing" THEN [ok |-> TRUE, fx |-> fx]
  ELSE IF copy_ok
       THEN [ok |-> TRUE, fx |-> [fx EXCEPT !.backups[path] = fx.files[path]]]
       ELSE [ok |-> FALSE, fx |-> fix_error(fx, <<"Failed to backup", path>>)]

\* load_json_file: {} for a missing or invalid file
load_json_file(fx, path) ==
  IF fx.files[path].kind = "json" THEN fx.files[path].config ELSE PyDict(<<>>)

\* save_json_file: the file is opened for writing (and so emptied) before
\* json.dump writes it
SaveOutcomes == {"saved", "not opened", "cut short"}
save_json_file(fx, path, data, outcome) ==
  CASE outcome = "saved" -> [ok |-> TRUE, fx |-> [fx EXCEPT !.files[path] = FileJson(data)]]
    [] outcome = "not opened" ->
         [ok |-> FALSE, fx |-> fix_error(fx, <<"Failed to save", path>>)]
    [] outcome = "cut short" ->
         [ok |-> FALSE,
          fx |-> fix_error([fx EXCEPT !.files[path] = FileInvalid], <<"Failed to save", path>>)]

\* if self.backup_file(path) and self.save_json_file(path, data): print_success
BackupThenSave(fx, path, data, copy_ok, outcome, text) ==
  LET backed == backup_file(fx, path, copy_ok)
  IN IF ~backed.ok THEN backed.fx
     ELSE LET saved == save_json_file(backed.fx, path, data, outcome)
          IN IF saved.ok THEN fix_success(saved.fx, text) ELSE saved.fx

\* dict.update: the entries of `more` replace or extend those of `mapping`
Update(mapping, more) ==
  PyDict([k \in DOMAIN mapping.v \cup DOMAIN more.v |->
            IF k \in DOMAIN more.v THEN more.v[k] ELSE mapping.v[k]])
SetItem(mapping, key, value) == Update(mapping, PyDict([k \in {key} |-> value]))

GeneratedExclude == PyList(<<PyStr("convex/_generated"), PyStr("**/_generated")>>)

root_config ==
  PyDict([compilerOptions |->
            PyDict([composite |-> PyBool(TRUE), incremental |-> PyBool(TRUE),
                    tsBuildInfoFile |-> PyStr("./node_modules/.tmp/tsconfig.tsbuildinfo"),
                    paths |-> PyDict([k \in {"@/*"} |-> PyList(<<PyStr("./src/*")>>)])]),
          files |-> PyList(<<>>),
          references |-> PyList(<<PyDict([path |-> PyStr("./tsconfig.app.json")]),
                                  PyDict([path |-> PyStr("./tsconfig.node.json")])>>),
          exclude |-> GeneratedExclude])

\* the options written into tsconfig.app.json and tsconfig.node.json
TsgoOptions(info_file) ==
  PyDict([composite |-> PyBool(TRUE), incremental |-> PyBool(TRUE),
          tsBuildInfoFile |-> PyStr(info_file), target |-> PyStr("ESNext"),
          forceConsistentCasingInFileNames |-> PyBool(TRUE)])

\* config.setdefault("compilerOptions", {}).update(options)
WithOptions(config, options) ==
  SetItem(config, "compilerOptions", Update(Get(config, "compilerOptions"), options))

app_config(loaded) ==
  SetItem(SetItem(WithOptions(loaded, TsgoOptions("./node_modules/.tmp/tsconfig.app.tsbuildinfo")),
                  "include", PyList(<<PyStr("src"), PyStr("convex")>>)),
          "exclude", GeneratedExclude)

node_config(loaded) ==
  WithOptions(loaded, TsgoOptions("./node_modules/.tmp/tsconfig.node.tsbuildinfo"))

\* fix_tsconfig_files; copies and saves say how each copy2 and each write goes
fix_tsconfig_files(fx, copies, saves) ==
  LET root == BackupThenSave(fx, "tsconfig.json", root_config, copies[1], saves[1],
                             <<"Root tsconfig.json updated">>)
      app == BackupThenSave(root, "tsconfig.app.json",
                            app_config(load_json_file(root, "tsconfig.app.json")),
                            copies[2], saves[2], <<"tsconfig.app.json updated">>)
  IN BackupThenSave(app, "tsconfig.node.json",
                    node_config(load_json_file(app, "tsconfig.node.json")),
                    copies[3], saves[3], <<"tsconfig.node.json updated">>)

\* str.replace(old, new) on the script commands of the model
Replacements ==
  { <<RunAllDev(n), "dev:backend", RunAllDev(n + 1)>> : n \in 0..5 }
  \cup { <<"convex dev", "convex dev", "convex dev --typecheck=disable">> }
Replace(script, old, new) ==
  IF ~InScript(old, script) THEN script
  ELSE (CHOOSE r \in Replacements : r[1] = script /\ r[2] = old)[3]

HasScript(scripts, name) == name \in DOMAIN scripts.v
SetScript(scripts, name, command) == SetItem(scripts, name, PyStr(command))

\* DevScript without the test for dev:typecheck
DevScriptAppends(scripts) ==
  IF ~HasScript(scripts, "dev") THEN scripts
  ELSE IF InScript("npm-run-all", scripts.v["dev"].v)
       THEN SetScript(scripts, "dev",
              Replace(scripts.v["dev"].v, "dev:backend", "dev:backend dev:typecheck"))
       ELSE SetScript(scripts, "dev",
              "npm-run-all --parallel dev:frontend dev:backend dev:typecheck")

DevScript(scripts) ==
  IF ~HasScript(scripts, "dev") THEN scripts
  ELSE IF InScript("npm-run-all", scripts.v["dev"].v)
       THEN IF InScript("dev:typecheck", scripts.v["dev"].v) THEN scripts
            ELSE SetScript(scripts, "dev",
                   Replace(scripts.v["dev"].v, "dev:backend", "dev:backend dev:typecheck"))
       ELSE SetScript(scripts, "dev",
              "npm-run-all --parallel dev:frontend dev:backend dev:typecheck")

BuildScript(scripts) ==
  IF HasScript(scripts, "build") /\ InScript("tsc", scripts.v["build"].v)
  THEN SetScript(SetScript(scripts, "build", "npm-run-all build:typecheck build:app"),
                 "build:app", "vite build")
  ELSE scripts

BackendScript(scripts) ==
  IF /\ HasScript(scripts, "dev:backend")
     /\ InScript("convex dev", scripts.v["dev:backend"].v)
     /\ ~InScript("--typecheck=disable", scripts.v["dev:backend"].v)
  THEN SetScript(scripts, "dev:backend",
         Replace(scripts.v["dev:backend"].v, "convex dev", "convex dev --typecheck=disable"))
  ELSE scripts

script_updates ==
  << <<"typecheck", "tsgo --noEmit --project tsconfig.app.json">>,
     <<"typecheck:tsc", "tsc --noEmit">>,
     <<"dev:typecheck", "tsgo --watch --noEmit --project tsconfig.app.json">>,
     <<"build:typecheck", "tsgo --noEmit --project tsconfig.app.json">> >>

RECURSIVE ApplyScriptUpdates(_, _)
ApplyScriptUpdates(scripts, i) ==
  IF i > Len(script_updates) THEN scripts
  ELSE ApplyScriptUpdates(
         IF ~HasScript(scripts, script_updates[i][1])
            \/ InScript("tsc", scripts.v[script_updates[i][1]].v)
         THEN SetScript(scripts, script_updates[i][1], script_updates[i][2])
         ELSE scripts,
         i + 1)

DeployScripts(scripts, package_json) ==
  IF "convex" \in DOMAIN Get(package_json, "dependencies").v
  THEN LET deploy == IF HasScript(scripts, "convex:deploy") THEN scripts
                     ELSE SetScript(scripts, "convex:deploy",
                            "npm run typecheck && convex deploy --typecheck=disable")
       IN IF HasScript(deploy, "convex:deploy:prod") THEN deploy
          ELSE SetScript(deploy, "convex:deploy:prod",
                 "npm run typecheck && convex deploy --typecheck=disable --prod")
  ELSE scripts

\* package_json with the scripts fix_package_scripts writes
FixedPackage(package_json) ==
  SetItem(package_json, "scripts",
    DeployScripts(
      ApplyScriptUpdates(
        BackendScript(BuildScript(DevScript(Get(package_json, "scripts")))), 1),
      package_json))

\* fix_package_scripts: what backup_file returns is not looked at
fix_package_scripts(fx, copy_ok, outcome) ==
  LET package_json == load_json_file(fx, "package.json")
  IN IF ~Truthy(package_json) THEN fix_error(fx, <<"package.json not found">>)
     ELSE LET backed == backup_file(fx, "package.json", copy_ok)
              saved == save_json_file(backed.fx, "package.json",
                                      FixedPackage(package_json), outcome)
          IN IF saved.ok THEN fix_success(saved.fx, <<"Package scripts updated for TSGO">>)
             ELSE saved.fx

\* what `npm install --save-dev` comes to
InstallOutcomes == {"installed", "failed", "exception"}
TsgoDependencies == {"@typescript/native-preview", "npm-run-all"}

\* fix_missing_dependencies; a successful npm install writes the packages
\* into devDependencies of package.json
fix_missing_dependencies(fx, npm) ==
  LET package_json == load_json_file(fx, "package.json")
      dev_deps == Get(package_json, "devDependencies")
  IN IF ~Truthy(package_json) THEN fix_error(fx, <<"package.json not found">>)
     ELSE IF TsgoDependencies \subseteq DOMAIN dev_deps.v
          THEN fix_success(fx, <<"All required dependencies already installed">>)
          ELSE CASE npm = "installed" ->
                      fix_success(
                        [fx EXCEPT !.files["package.json"] =
                           FileJson(SetItem(package_json, "devDependencies",
                                      Update(dev_deps, Entries(TsgoDependencies, PyStr("^1")))))],
                        <<"Dependencies installed successfully">>)
                 [] npm = "failed" -> fix_error(fx, <<"Failed to install dependencies">>)
                 [] npm = "exception" -> fix_error(fx, <<"Error installing dependencies">>)

\* clean_build_cache and remove_test_file: what is there and how removing goes
RemoveOutcomes == {"nothing there", "removed", "not removed"}
clean_build_cache(fx, outcome) ==
  CASE outcome = "nothing there" -> fx
    [] outcome = "removed" -> fix_success(fx, <<"Build cache cleaned">>)
    [] outcome = "not removed" -> fix_error(fx, <<"Failed to clean cache">>)
remove_test_file(fx, outcome) ==
  CASE outcome = "nothing there" -> fx
    [] outcome = "removed" -> fix_success(fx, <<"Test file removed">>)
    [] outcome = "not removed" -> fix_error(fx, <<"Failed to remove test file">>)

\* verify_fix: TSGOAutoFixer has no print_warning, so the warning branch
\* raises AttributeError, which the except clause reports
VersionOutcomes == {"ok", "failed", "exception"}
TypecheckOutcomes == {"ok", "issues", "exception"}
verify_fix(fx, version, typecheck) ==
  IF version = "exception" THEN fix_error(fx, <<"Verification failed", "TimeoutExpired">>)
  ELSE LET tsgo == IF version = "ok" THEN fix_success(fx, <<"TSGO is working">>)
                   ELSE fix_error(fx, <<"TSGO command failed">>)
       IN CASE typecheck = "ok" -> fix_success(tsgo, <<"Type checking script is working">>)
            [] typecheck = "issues" -> fix_error(tsgo, <<"Verification failed", "AttributeError">>)
            [] typecheck = "exception" ->
                 fix_error(tsgo, <<"Verification failed", "TimeoutExpired">>)

(***************************************************************************)
(* TSGOAutoFixer.run_all_fixes                                             *)
(***************************************************************************)
\* the consecutive runs of the script in one project directory
MaxRuns == 2

RunAllPackage ==
  PyDict([dependencies |-> Entries({"convex"}, PyStr("^1")),
          scripts |-> PyDict(
            [k \in {"dev", "dev:backend"} |->
               PyStr(CASE k = "dev" -> RunAllDev(0)
                       [] k = "dev:backend" -> "convex dev --typecheck=disable")])])

\* a tsconfig with settings of its own
OwnTsconfig ==
  PyDict([compilerOptions |-> PyDict([strict |-> PyBool(TRUE), target |-> PyStr("ES2020")]),
          include |-> PyList(<<PyStr("src")>>),
          extends |-> PyStr("./base.json")])

Files(package, root, app, node) ==
  [path \in JsonPaths |->
     CASE path = "package.json" -> package
       [] path = "tsconfig.json" -> root
       [] path = "tsconfig.app.json" -> app
       [] path = "tsconfig.node.json" -> node]

\* the project directories before the first run
ProjectFiles ==
  { Files(package, FileJson(OwnTsconfig), FileJson(OwnTsconfig), FileJson(OwnTsconfig)) :
      package \in {FileMissing, FileJson(TscPackage), FileJson(TsgoPackage),
                   FileJson(RunAllPackage)} }
  \cup
  { Files(FileJson(TscPackage), FileMissing, app, FileJson(OwnTsconfig)) :
      app \in {FileMissing, FileInvalid, FileJsonc(OwnTsconfig)} }
  \cup
  { Files(FileJson(TsgoPackage), FileJson(OwnTsconfig), FileJson(OwnTsconfig),
          FileJsonc(OwnTsconfig)) }

NoBackups == [path \in JsonPaths |-> FileMissing]

NewFixer(files, backups) ==
  [files |-> files, backups |-> backups, applied |-> <<>>, failed |-> <<>>]

\* a run in which every step does its work
GoodRun(fx) ==
  verify_fix(
    remove_test_file(
      clean_build_cache(
        fix_package_scripts(
          fix_tsconfig_files(fix_missing_dependencies(fx, "installed"),
                             [i \in 1..3 |-> TRUE], [i \in 1..3 |-> "saved"]),
          TRUE, "saved"),
        "removed"),
      "removed"),
    "ok", "ok")

\* the directory after n such runs
RECURSIVE AfterRuns(_, _)
AfterRuns(files, n) ==
  IF n = 0 THEN NewFixer(files, NoBackups)
  ELSE LET before == AfterRuns(files, n - 1)
       IN GoodRun(NewFixer(before.files, before.backups))

\* a package.json with the packages of the fixer installed
Installed(package_json) ==
  SetItem(package_json, "devDependencies", Entries(TsgoDependencies, PyStr("^1")))

\* the directories in which the script is run again
RerunFiles ==
  { Files(FileJson(Installed(package)), FileJson(OwnTsconfig), FileJson(OwnTsconfig),
          FileJson(OwnTsconfig)) : package \in {TscPackage, RunAllPackage} }

\* original: the files as they were before the first run
Projects ==
  { [files |-> files, backups |-> NoBackups, original |-> files, run |-> 1] :
      files \in ProjectFiles }
  \cup
  { [files |-> AfterRuns(files, n).files, backups |-> AfterRuns(files, n).backups,
     original |-> files, run |-> n + 1] :
      files \in RerunFiles, n \in 1..(MaxRuns - 1) }

FixInit ==
  /\ NoMain
  /\ arg = NoCall
  /\ ret = NoCall
  /\ step = "confirm"
  /\ project \in Projects
  /\ errors = <<>>
  /\ warnings = <<>>
  /\ successes = <<>>
  /\ fixes_applied = <<>>
  /\ fixes_failed = <<>>

Fixer == [files |-> project.files, backups |-> project.backups,
          applied |-> fixes_applied, failed |-> fixes_failed]

\* the step `call` has left the fixer state `fx`; go on with `next`
FixDone(call, fx, next) ==
  /\ arg' = call
  /\ project' = [project EXCEPT !.files = fx.files, !.backups = fx.backups]
  /\ fixes_applied' = fx.applied
  /\ fixes_failed' = fx.failed
  /\ step' = next
  /\ UNCHANGED <<ret, errors, warnings, successes>>
  /\ UNCHANGED main_vars

\* input(): response.lower() != 'y' cancels
Responses == {"y", "Y", "n", "", "yes"}
Lower(response) == IF response = "Y" THEN "y" ELSE response
\* Cancels for an answer of n only
CancelsOnNo(response) == Lower(response) = "n"
Cancels(response) == Lower(response) # "y"

Confirm ==
  /\ step = "confirm"
  /\ \E response \in Responses :
       /\ arg' = [fn |-> "run_all_fixes", response |-> response]
       /\ IF Cancels(response)
          THEN step' = "done" /\ ret' = [raised |-> "", value |-> 1, cancelled |-> TRUE]
          ELSE step' = "fix_missing_dependencies" /\ UNCHANGED ret
  /\ UNCHANGED <<project, errors, warnings, successes, fixes_applied, fixes_failed>>
  /\ UNCHANGED main_vars

FixMissingDependencies ==
  /\ step = "fix_missing_dependencies"
  /\ \E npm \in InstallOutcomes :
       FixDone([fn |-> "fix_missing_dependencies"],
               fix_missing_dependencies(Fixer, npm), "fix_tsconfig_files")

FixTsconfigFiles ==
  /\ step = "fix_tsconfig_files"
  /\ \E copies \in [1..3 -> BOOLEAN], saves \in [1..3 -> SaveOutcomes] :
       FixDone([fn |-> "fix_tsconfig_files"],
               fix_tsconfig_files(Fixer, copies, saves), "fix_package_scripts")

FixPackageScripts ==
  /\ step = "fix_package_scripts"
  /\ \E copy_ok \in BOOLEAN, outcome \in SaveOutcomes :
       FixDone([fn |-> "fix_package_scripts"],
               fix_package_scripts(Fixer, copy_ok, outcome), "clean_build_cache")

CleanBuildCache ==
  /\ step = "clean_build_cache"
  /\ \E outcome \in RemoveOutcomes :
       FixDone([fn |-> "clean_build_cache"],
               clean_build_cache(Fixer, outcome), "remove_test_file")

RemoveTestFile ==
  /\ step = "remove_test_file"
  /\ \E outcome \in RemoveOutcomes :
       FixDone([fn |-> "remove_test_file"],
               remove_test_file(Fixer, outcome), "verify_fix")

VerifyFix ==
  /\ step = "verify_fix"
  /\ \E version \in VersionOutcomes, typecheck \in TypecheckOutcomes :
       FixDone([fn |-> "verify_fix", version |-> version, typecheck |-> typecheck],
               verify_fix(Fixer, version, typecheck), "print_summary")

\* print_summary, then return 0 if not self.fixes_failed else 1
FixSummary ==
  /\ step = "print_summary"
  /\ step' = "done"
  /\ ret' = [raised |-> "", value |-> IF fixes_failed = <<>> THEN 0 ELSE 1,
             cancelled |-> FALSE]
  /\ UNCHANGED <<arg, project, errors, warnings, successes, fixes_applied, fixes_failed>>
  /\ UNCHANGED main_vars

FixNext ==
  \/ Confirm
  \/ FixMissingDependencies
  \/ FixTsconfigFiles
  \/ FixPackageScripts
  \/ CleanBuildCache
  \/ RemoveTestFile
  \/ VerifyFix
  \/ FixSummary

FixSpec == FixInit /\ [][FixNext]_vars

\* C18: a target file is overwritten by save_json_file only after backup_file
\* has succeeded for it: whenever one of the two saving steps changes a file
\* that was there, the backup made in that step holds the file as it was.
C18_Step ==
  \A path \in JsonPaths :
    (/\ step \in {"fix_tsconfig_files", "fix_package_scripts"}
     /\ project'.files[path] # project.files[path]
     /\ project.files[path].kind # "missing")
      => project'.backups[path] = project.files[path]
C18_SavedOnlyAfterBackup == [][C18_Step]_vars

(***************************************************************************)
(* evaluate: the two lists it returns against the rule list                *)
(***************************************************************************)
ViolationRuleSeq == [i \in 1..Len(violations) |-> violations[i].rule]

\* rs is vs and ps interleaved, each in its own order
RECURSIVE IsMerge(_, _, _)
IsMerge(rs, vs, ps) ==
  IF rs = <<>> THEN vs = <<>> /\ ps = <<>>
  ELSE \/ vs # <<>> /\ Head(vs) = Head(rs) /\ IsMerge(Tail(rs), Tail(vs), ps)
       \/ ps # <<>> /\ Head(ps) = Head(rs) /\ IsMerge(Tail(rs), vs, Tail(ps))

\* a rule with neither expected_value nor validator
BareRule(type, path) ==
  [id |-> "bare", type |-> type, severity |-> ERROR, path |-> path,
   expected_value |-> None, forbidden_value |-> None, validator |-> NoValidator,
   fix_suggestion |-> NoFix]
BareRules ==
  {BareRule(type, path) : type \in {REQUIRED, RECOMMENDED},
                          path \in {<<"compilerOptions", "strict">>, <<"exclude">>}}

NoLists == [raised |-> "", violations |-> <<>>, passed_rules |-> <<>>]

Partitioned ==
  /\ Returned
  /\ IsMerge(rules, ViolationRuleSeq, passed_rules)
  /\ Len(violations) + Len(passed_rules) = Len(rules)
  /\ \A rule \in BareRules :
       Record(NoLists, rule, _evaluate_rule(rule, content.config, ConfigPath)).passed_rules
         = <<rule>>

\* C19: for a config that parses and is not references-only, evaluate
\* returns, every rule of the rule list is once, in rule-list order, in
\* exactly one of violations (as Violation.rule) or passed_rules, so the two
\* lengths add up to the number of rules; and a Required or Recommended rule
\* with neither expected value nor validator is recorded as passed.
C19_RulesPartitioned ==
  (content # NoContent /\ content.kind = "json" /\ ~ReferencesOnly(content.config))
    => Partitioned

\* the same for top-level objects only
C19_ObjectsPartitioned ==
  (content # NoContent /\ content.kind = "json" /\ ~ReferencesOnly(content.config)
     /\ IsDict(content.config))
    => Partitioned

\* the values of C19_RulesPartitioned's case on which evaluate returns
\* without a partition: `in` on a list or a string
C19_SkippedOnNonObject ==
  (Returned /\ content.kind = "json" /\ content.config.t \in {"list", "str"}
     /\ is_references_config(content.config))
    => Len(violations) + Len(passed_rules) = Len(rules)

(***************************************************************************)
(* The validator lambdas as calls: what can raise inside them.  Iterating  *)
(* and `in` raise TypeError on None, booleans and numbers; ==, str() and   *)
(* `in` on a list or a string do not raise.                                *)
(***************************************************************************)
IterRaises(v) == v.t \in {"none", "bool", "num"}

\* `v or []`
OrEmptyList(v) == IF Truthy(v) THEN v ELSE PyList(<<>>)

\* ValidatorRaises without the isinstance(v, list) guards
ValidatorRaisesUnguarded(validator, v) ==
  CASE validator = "ts-node-types" -> InRaises(OrEmptyList(v))
    [] validator = "convex-required-lib" -> IterRaises(v)
    [] validator = "convex-module-resolution" -> FALSE
    [] validator = "convex-jsx" -> FALSE
    [] validator = "convex-exclude-generated" -> IterRaises(v)

\* whether validator(v) raises
ValidatorRaises(validator, v) ==
  CASE validator = "ts-node-types" -> IsList(v) /\ InRaises(OrEmptyList(v))
    [] validator = "convex-required-lib" -> IsList(v) /\ IterRaises(v)
    [] validator = "convex-module-resolution" -> FALSE
    [] validator = "convex-jsx" -> FALSE
    [] validator = "convex-exclude-generated" -> IsList(v) /\ IterRaises(v)

\* whether _evaluate_rule reaches rule.validator(value)
CallsValidator(rule) ==
  /\ rule.type \in {REQUIRED, RECOMMENDED}
  /\ IsNone(rule.expected_value)
  /\ rule.validator # NoValidator

\* _evaluate_rule as a call: an exception of the validator leaves it
EvaluateRuleCall(rule, config, config_file) ==
  IF CallsValidator(rule) /\ ValidatorRaises(rule.validator, ResolvePath(rule.path, config))
  THEN [raised |-> "TypeError", value |-> None]
  ELSE [raised |-> "", value |-> _evaluate_rule(rule, config, config_file)]

\* a rules document from which every rule with a validator is extracted
ValidatorDocument ==
  [sections |-> [title \in {TsSection} |-> {NodeTypesPhrase}], code_blocks |-> <<>>]
ValidatorRules ==
  {extract_rules(ValidatorDocument)[i] : i \in
     {j \in 1..Len(extract_rules(ValidatorDocument)) :
        extract_rules(ValidatorDocument)[j].validator # NoValidator}}

\* JSON values: scalars, and lists and objects of scalars and empty containers
ScalarValues ==
  {None, PyBool(TRUE), PyBool(FALSE), PyNum(0), PyNum(1), PyStr(""), PyStr("x"),
   PyStr("@types/node"), PyStr("DOM"), PyStr("ES2021"), PyStr("Bundler"),
   PyStr("react-jsx"), PyStr("./_generated")}
ItemValues == ScalarValues \cup {PyList(<<>>), PyDict(<<>>)}
JsonValues ==
  ScalarValues
    \cup {PyList(<<>>)} \cup {PyList(<<item>>) : item \in ItemValues}
    \cup {PyList(<<PyStr("x"), item>>) : item \in {PyStr("DOM"), PyStr("@types/node"),
                                                   PyStr("./_generated"), PyNum(1)}}
    \cup {PyDict(<<>>), PyDict([k \in {"DOM"} |-> PyNum(1)]),
          PyDict([k \in {"@types/node"} |-> PyStr("_generated")])}

\* the config in which `path` leads to `value`; Absent leaves the last key out
RECURSIVE ConfigWith(_, _)
ConfigWith(path, value) ==
  IF path = <<>> THEN value
  ELSE IF Len(path) = 1 /\ value = Absent THEN PyDict(<<>>)
       ELSE PyDict([k \in {Head(path)} |-> ConfigWith(Tail(path), value)])

ValidatorInit ==
  /\ NoMain
  /\ NoScript
  /\ arg \in {[fn |-> "_evaluate_rule", rule |-> rule, value |-> value] :
                rule \in ValidatorRules, value \in JsonValues \cup {Absent}}
  /\ ret = NoCall

EvaluateRule ==
  /\ arg.fn = "_evaluate_rule"
  /\ ret = NoCall
  /\ ret' = EvaluateRuleCall(arg.rule, ConfigWith(arg.rule.path, arg.value), "tsconfig.json")
  /\ UNCHANGED arg
  /\ UNCHANGED <<main_vars, script_vars>>

ValidatorNext == EvaluateRule

ValidatorSpec == ValidatorInit /\ [][ValidatorNext]_vars

\* the value the validator is handed
Handed == IF arg.value = Absent THEN None ELSE arg.value

\* C20: each validator attached to an extracted rule, applied to an absent
\* value or to any JSON value, returns a truth value and does not raise, and
\* _evaluate_rule then yields a Violation of that rule when the validator
\* said no and None when it said yes.
C20_ValidatorsTotal ==
  (arg # NoCall /\ arg.fn = "_evaluate_rule" /\ ret # NoCall) =>
    /\ ret.raised = ""
    /\ ApplyValidator(arg.rule.validator, Handed) \in BOOLEAN
    /\ IF ApplyValidator(arg.rule.validator, Handed)
       THEN ret.value = NoViolation
       ELSE /\ ret.value # NoViolation
            /\ ret.value.rule = arg.rule
            /\ ret.value.actual_value = Handed

\* the node-types validator is handed a number and lets it pass
C20_Witness ==
  /\ arg # NoCall /\ arg.fn = "_evaluate_rule" /\ ret # NoCall
  /\ arg.rule.id = "ts-node-types"
  /\ arg.value = PyNum(1)
  /\ ret.raised = ""
  /\ ret.value = NoViolation

\* the absent value is handled too: a Violation for the lib rule
C20_AbsentHandled ==
  /\ arg # NoCall /\ arg.fn = "_evaluate_rule" /\ ret # NoCall
  /\ arg.rule.id = "convex-required-lib"
  /\ arg.value = Absent
  /\ ret.raised = ""
  /\ ret.value # NoViolation

\* the file opens with a delimiter block that parse recognises
HasFrontMatter == arg.front # <<>>

\* C21: after parse of any document the front matter is a mapping (empty when
\* the file has none), also when the delimiter block is empty or holds a bare
\* scalar or a list instead of key: value lines.
C21_FrontMatterIsMapping ==
  Parsed =>
    /\ IsDict(ret.frontmatter)
    /\ ~HasFrontMatter => ret.frontmatter = PyDict(<<>>)

\* the same for delimiter blocks with at least one key: value line
C21_PairsGiveMapping ==
  (Parsed /\ \E i \in 1..Len(arg.front) : \E j \in 1..Len(arg.front[i]) : arg.front[i][j] = ":")
    => IsDict(ret.frontmatter)

\* C24: after any number of consecutive runs the backup of each modified
\* file holds what the file held before the first run; a later run does not
\* replace the backup with content the fixer wrote.
C24_BackupHoldsOriginal ==
  \A path \in JsonPaths :
    project.backups[path] # FileMissing => project.backups[path] = project.original[path]

\* the same within the first run, for the tsconfig files
C24_FirstRunBackupsOriginal ==
  project.run = 1 =>
    \A path \in JsonPaths \ {"package.json"} :
      project.backups[path] # FileMissing => project.backups[path] = project.original[path]

\* the same within later runs, for the tsconfig files
C24_LaterRunBackupsOriginal ==
  project.run > 1 =>
    \A path \in JsonPaths \ {"package.json"} :
      project.backups[path] # FileMissing => project.backups[path] = project.original[path]

\* the keys fix_tsconfig_files sets itself
SetKeys(path) ==
  IF path = "tsconfig.app.json" THEN {"compilerOptions", "include", "exclude"}
  ELSE {"compilerOptions"}
SetOptionKeys == DOMAIN TsgoOptions("").v

\* every other key of `old`, at top level and in compilerOptions, is in `new`
\* with the value it had
SettingsKept(path, old, new) ==
  /\ \A k \in DOMAIN old.v \ SetKeys(path) : k \in DOMAIN new.v /\ new.v[k] = old.v[k]
  /\ \A k \in DOMAIN Get(old, "compilerOptions").v \ SetOptionKeys :
       /\ k \in DOMAIN Get(new, "compilerOptions").v
       /\ Get(new, "compilerOptions").v[k] = Get(old, "compilerOptions").v[k]

Rewritten(path) ==
  /\ step = "fix_tsconfig_files"
  /\ project'.files[path] # project.files[path]
  /\ project'.files[path].kind = "json"

\* C25: fix_tsconfig_files keeps the existing settings of tsconfig.app.json
\* and tsconfig.node.json, also of files with comments or trailing commas:
\* every top-level key and compilerOptions key the fixer does not set is
\* there with the same value after the fix.
C25_Step ==
  \A path \in {"tsconfig.app.json", "tsconfig.node.json"} :
    (Rewritten(path) /\ project.files[path].kind \in {"json", "jsonc"})
      => SettingsKept(path, project.files[path].config, project'.files[path].config)
C25_SettingsPreserved == [][C25_Step]_vars

\* the same for files that are plain JSON
C25_PlainStep ==
  \A path \in {"tsconfig.app.json", "tsconfig.node.json"} :
    (Rewritten(path) /\ project.files[path].kind = "json")
      => SettingsKept(path, project.files[path].config, project'.files[path].config)
C25_PlainSettingsPreserved == [][C25_PlainStep]_vars

PackageSaved == \E i \in 1..Len(fixes_applied) : fixes_applied[i] = <<"Package scripts updated for TSGO">>
Scripts == Get(project.files["package.json"].config, "scripts")
\* how often `part` is in the script: the commands of the model apart, a
\* script holds each part at most once
Times(part, script) ==
  IF \E n \in 2..6 : script = RunAllDev(n) /\ part = "dev:typecheck"
  THEN CHOOSE n \in 1..5 : script = RunAllDev(n + 1)
  ELSE IF InScript(part, script) THEN 1 ELSE 0

\* C26: fix_package_scripts applied to the package.json it has written
\* leaves every script as it is; dev:typecheck and --typecheck=disable are
\* in no script twice.
C26_ScriptsFixedOnce ==
  (PackageSaved /\ project.files["package.json"].kind = "json") =>
    /\ Get(FixedPackage(project.files["package.json"].config), "scripts") = Scripts
    /\ HasScript(Scripts, "dev") => Times("dev:typecheck", Scripts.v["dev"].v) <= 1
    /\ HasScript(Scripts, "dev:backend") =>
         Scripts.v["dev:backend"].v \in {"convex dev --typecheck=disable"}

\* a second run has rewritten a package.json that the first run had fixed
C26_Witness ==
  /\ PackageSaved
  /\ project.run > 1
  /\ project.files["package.json"].kind = "json"
  /\ Scripts.v["dev"].v = RunAllDev(1)
  /\ Scripts.v["dev:backend"].v = "convex dev --typecheck=disable"

\* a first run has rewritten the scripts of a package.json that used tsc
C26_FirstRunFixed ==
  /\ PackageSaved
  /\ project.run = 1
  /\ project.original["package.json"] = FileJson(TscPackage)
  /\ project.files["package.json"].kind = "json"
  /\ Scripts.v["dev"].v = RunAllDev(1)
  /\ Scripts.v["build"].v = "npm-run-all build:typecheck build:app"

\* verify_fix found the typecheck script failing (non-zero exit, no
\* test-tsgo.ts in stderr)
TypecheckFailed ==
  /\ step \in {"print_summary", "done"}
  /\ arg # NoCall /\ arg.fn = "verify_fix"
  /\ arg.version # "exception"
  /\ arg.typecheck = "issues"
RunEnded == step = "done" /\ ret # NoCall /\ ~ret.cancelled

\* C27: a failing typecheck script is a warning only: verify_fix adds no
\* entry to fixes_failed for it, so with every other fix successful
\* run_all_fixes returns 0; and run_all_fixes returns 0 if and only if
\* fixes_failed is empty.
C27_TypecheckFailureIsWarning ==
  /\ TypecheckFailed =>
       \A i \in 1..Len(fixes_failed) : fixes_failed[i][1] # "Verification failed"
  /\ RunEnded => (ret.value = 0 <=> fixes_failed = <<>>)
  /\ (RunEnded /\ TypecheckFailed /\ arg.version = "ok"
        /\ \A i \in 1..Len(fixes_failed) : fixes_failed[i][1] = "Verification failed")
       => ret.value = 0

\* the half that holds: the return value tells whether fixes_failed is empty
C27_ReturnTellsFailures ==
  RunEnded => (ret.value = 0 <=> fixes_failed = <<>>)

\* C28: when the answer to the confirmation is anything but y or Y, no fix
\* step runs: the run ends at once with return value 1, the files and the
\* backups are as they were, fixes_applied and fixes_failed stay empty.
C28_Step ==
  (step = "confirm" /\ arg' # NoCall /\ arg'.fn = "run_all_fixes"
     /\ arg'.response \notin {"y", "Y"})
    => /\ step' = "done"
       /\ ret' = [raised |-> "", value |-> 1, cancelled |-> TRUE]
       /\ project' = project
       /\ fixes_applied' = <<>> /\ fixes_failed' = <<>>
C28_CancelChangesNothing == [][C28_Step]_vars

\* the answer "yes" has cancelled the run
C28_Witness ==
  /\ step = "done"
  /\ arg # NoCall /\ arg.fn = "run_all_fixes" /\ arg.response = "yes"
  /\ ret # NoCall /\ ret.cancelled /\ ret.value = 1
  /\ fixes_applied = <<>> /\ fixes_failed = <<>>
  /\ project.files = project.original
====
